---- MODULE Spec2Model ----
(***************************************************************************)
(* Conditional-exports resolver of turbo-meta-utilities (package-json.ts): *)
(* ExportTarget (constructor, resolve, _resolveExportValue,                *)
(* _normalizeConditions), GlobResolver and PackageJson.resolveImport, and  *)
(* resolveImport of TurboPackage / TurboApp (turbo.ts).                    *)
(*                                                                         *)
(* Strings are sequences of one-character strings, so "" is <<>>.          *)
(* An optional string (string | undefined) is a sequence of length 0 or 1. *)
(***************************************************************************)
EXTENDS Naturals, Sequences, FiniteSets, TLC

VARIABLES
    target,      \* the ExportValue handed to the operation under test
    options,     \* the ExportTargetOptions handed to the constructor
    obj,         \* the constructed ExportTarget (its fields), or NoObj
    threw,       \* TRUE iff the constructor threw 'Invalid export target'
    conditions,  \* argument of the last _resolveExportValue / resolve call
    resolved,    \* result of the last direct _resolveExportValue call
    returned,    \* result of the last resolve(conditions) call
    op,          \* the operation that produced the current state
    patterns,    \* the pattern table of the GlobResolver, in declaration order
    importPath,  \* the subpath handed to resolveImport
    selected,    \* index of the entry resolveImport stopped at, 0 for none
    exportsField, \* data.exports of the PackageJson: undefined, or the table
    packagePath, \* this.path of the TurboPackage / TurboApp
    proxied,     \* TRUE iff its resolveImport returned a Proxy (of obj)
    prop,        \* the property last read on that Proxy
    got,         \* what that read gave: a value, or a TypeError
    fs,          \* the file system below the monorepo root
    listed,      \* result of the last read of packages / apps / allWorkspaces
    previous,    \* result of the read before that one
    evaluated    \* for each _resolveExportValue call that the last constructor
                 \* or resolve call made, the nodes it evaluated, in order

vars == <<target, options, obj, threw, conditions, resolved, returned, op,
          patterns, importPath, selected, exportsField,
          packagePath, proxied, prop, got, fs, listed, previous,
          evaluated>>

workspaceVars == <<fs, listed, previous>>

turboVars == <<packagePath, proxied, prop, got, workspaceVars>>

globVars == <<patterns, importPath, selected, exportsField, turboVars>>

----------------------------------------------------------------------------
(* Bounds of the model *)

\* an ExportValue tree has at most MaxNodes nodes
MaxNodes == 3
\* a raw condition list passed by a caller has at most MaxConds entries
MaxConds == 2
\* a pattern table has at most MaxPatterns entries
MaxPatterns == 2

----------------------------------------------------------------------------
(* Strings and optional values *)

S(c) == <<c>>
EmptyString == <<>>

Undefined == <<>>
Some(v) == <<v>>
IsDefined(o) == o # <<>>
\* a ?? b
Coalesce(a, b) == IF IsDefined(a) THEN a ELSE b
\* JavaScript truthiness of a string | undefined: undefined and '' are falsy
Truthy(o) == IsDefined(o) /\ o[1] # EmptyString

Min(set) == CHOOSE m \in set : \A n \in set : m <= n

----------------------------------------------------------------------------
(* ExportValue: string | null | ExportValue[] | {[condition]: ExportValue} *)
(* An object keeps its keys in insertion order (keys), with the value of   *)
(* keys[i] in items[i].                                                    *)

Str(p) == [kind |-> "string", path |-> p, keys |-> <<>>, items |-> <<>>]
NullValue == [kind |-> "null", path |-> <<>>, keys |-> <<>>, items |-> <<>>]
Arr(xs) == [kind |-> "array", path |-> <<>>, keys |-> <<>>, items |-> xs]
Obj(ks, xs) == [kind |-> "object", path |-> <<>>, keys |-> ks, items |-> xs]

\* Object.prototype.hasOwnProperty.call(value, condition)
HasOwnProperty(value, condition) ==
    \E i \in 1..Len(value.keys) : value.keys[i] = condition

\* value[condition], for an own property
Get(value, condition) ==
    value.items[CHOOSE i \in 1..Len(value.keys) : value.keys[i] = condition]

\* Result of _resolveExportValue: string | null | undefined
Leaf(p) == [tag |-> "string", path |-> p]
Blocked == [tag |-> "null", path |-> <<>>]
Absent == [tag |-> "undefined", path |-> <<>>]

DEFAULT_CONDITION_PRIORITY == <<"node", "browser", "import", "require", "types">>

----------------------------------------------------------------------------
(* ExportTarget._resolveExportValue                                        *)

RECURSIVE _resolveExportValue(_, _)
RECURSIVE ResolveArray(_, _, _, _)
RECURSIVE ResolveObject(_, _, _)

\* ResolveArray, had a Blocked entry ended the search
ResolveArrayStopAtBlocked(value, conds, i, blocked) ==
    IF i > Len(value.items) THEN (IF blocked THEN Blocked ELSE Absent)
    ELSE LET r == _resolveExportValue(value.items[i], conds)
         IN  IF r = Blocked THEN Blocked
             ELSE IF r # Absent THEN r
             ELSE ResolveArray(value, conds, i + 1, blocked)

\* ResolveObject, had it walked the keys of the object in insertion order
ResolveObjectInsertionOrder(value, conds, i) ==
    IF i > Len(value.keys) THEN Absent
    ELSE IF \E j \in 1..Len(conds) : conds[j] = value.keys[i]
         THEN LET r == _resolveExportValue(value.items[i], conds)
              IN  IF r # Absent THEN r ELSE ResolveObject(value, conds, i + 1)
         ELSE ResolveObject(value, conds, i + 1)

\* ResolveObject, had a Blocked entry fallen through to the next condition
ResolveObjectSkipBlocked(value, conds, i) ==
    IF i > Len(conds) THEN Absent
    ELSE IF HasOwnProperty(value, conds[i])
         THEN LET r == _resolveExportValue(Get(value, conds[i]), conds)
              IN  IF r # Absent /\ r # Blocked THEN r
                  ELSE ResolveObject(value, conds, i + 1)
         ELSE ResolveObject(value, conds, i + 1)

\* ResolveObject, had an object without a matching key counted as Blocked
ResolveObjectBlockedAtEnd(value, conds, i) ==
    IF i > Len(conds) THEN Blocked
    ELSE IF HasOwnProperty(value, conds[i])
         THEN LET r == _resolveExportValue(Get(value, conds[i]), conds)
              IN  IF r # Absent THEN r ELSE ResolveObject(value, conds, i + 1)
         ELSE ResolveObject(value, conds, i + 1)

\* ResolveObject, had it passed on only the conditions after the matched one
ResolveObjectShrinking(value, conds, i) ==
    IF i > Len(conds) THEN Absent
    ELSE IF HasOwnProperty(value, conds[i])
         THEN LET r == _resolveExportValue(Get(value, conds[i]),
                                           SubSeq(conds, i + 1, Len(conds)))
              IN  IF r # Absent THEN r ELSE ResolveObject(value, conds, i + 1)
         ELSE ResolveObject(value, conds, i + 1)

ResolveArray(value, conds, i, blocked) ==
    IF i > Len(value.items) THEN (IF blocked THEN Blocked ELSE Absent)
    ELSE LET r == _resolveExportValue(value.items[i], conds)
         IN  IF r = Blocked THEN ResolveArray(value, conds, i + 1, TRUE)
             ELSE IF r # Absent THEN r
             ELSE ResolveArray(value, conds, i + 1, blocked)

\* the condition loop from conds[i] on
ResolveObject(value, conds, i) ==
    IF i > Len(conds) THEN Absent
    ELSE IF HasOwnProperty(value, conds[i])
         THEN LET r == _resolveExportValue(Get(value, conds[i]), conds)
              IN  IF r # Absent THEN r ELSE ResolveObject(value, conds, i + 1)
         ELSE ResolveObject(value, conds, i + 1)

_resolveExportValue(value, conds) ==
    IF value.kind = "null" THEN Blocked
    ELSE IF value.kind = "string" THEN Leaf(value.path)
    ELSE IF value.kind = "array" THEN ResolveArray(value, conds, 1, FALSE)
    ELSE ResolveObject(value, conds, 1)

----------------------------------------------------------------------------
(* ExportTarget._normalizeConditions                                       *)

RECURSIVE Dedupe(_, _)
\* the loop: push every condition not seen before
Dedupe(conds, acc) ==
    IF conds = <<>> THEN acc
    ELSE IF \E j \in 1..Len(acc) : acc[j] = Head(conds)
         THEN Dedupe(Tail(conds), acc)
         ELSE Dedupe(Tail(conds), Append(acc, Head(conds)))

\* _normalizeConditions, had it kept the repeated entries of the list
_normalizeConditionsKeepingRepeats(conds) ==
    IF \E j \in 1..Len(conds) : conds[j] = "default"
    THEN conds
    ELSE Append(conds, "default")

\* _normalizeConditions, had it always moved "default" to the end
_normalizeConditionsDefaultLast(conds) ==
    LET normalized == Dedupe(conds, <<>>)
        others == {i \in 1..Len(normalized) : normalized[i] # "default"}
        nth(k) == CHOOSE i \in others : Cardinality({j \in others : j <= i}) = k
    IN  [k \in 1..Cardinality(others) |-> normalized[nth(k)]] \o <<"default">>

_normalizeConditions(conds) ==
    LET normalized == Dedupe(conds, <<>>)
    IN  IF \E j \in 1..Len(normalized) : normalized[j] = "default"
        THEN normalized
        ELSE Append(normalized, "default")

----------------------------------------------------------------------------
(* ExportTarget: _resolveFor, the constructor and resolve                  *)

\* _resolveFor, had it turned a blocked resolution into the empty path
_resolveForEmptyWhenBlocked(value, conds) ==
    LET result == _resolveExportValue(value, conds)
    IN  IF result = Blocked THEN [target |-> Some(EmptyString), blocked |-> TRUE]
        ELSE IF result = Absent THEN [target |-> Undefined, blocked |-> FALSE]
        ELSE [target |-> Some(result.path), blocked |-> FALSE]

\* ResolveResult {target?: string, blocked: boolean}
_resolveFor(value, conds) ==
    LET result == _resolveExportValue(value, conds)
    IN  IF result = Blocked THEN [target |-> Undefined, blocked |-> TRUE]
        ELSE IF result = Absent THEN [target |-> Undefined, blocked |-> FALSE]
        ELSE [target |-> Some(result.path), blocked |-> FALSE]

\* options = {}: no conditionPriority, no conditionSets
NoConditionSets ==
    [default |-> Undefined, import |-> Undefined, require |-> Undefined, types |-> Undefined]
NoOptions == [conditionPriority |-> Undefined, conditionSets |-> NoConditionSets]

NoObj ==
    [constructed |-> FALSE,
     default |-> Undefined, import |-> Undefined,
     require |-> Undefined, types |-> Undefined,
     _target |-> NullValue, _conditionPriority |-> <<>>,
     _conditionSets |-> NoConditionSets]

\* this._conditionPriority
ConditionPriorityOf(opts) ==
    _normalizeConditions(
        IF IsDefined(opts.conditionPriority) THEN opts.conditionPriority[1]
        ELSE DEFAULT_CONDITION_PRIORITY)

\* ConditionSetOf, had the caller's override of the set been ignored
ConditionSetIgnoringOverride(opts, key) ==
    _normalizeConditions(<<key>> \o ConditionPriorityOf(opts))

\* this._conditionSets[key]
ConditionSetOf(opts, key) ==
    _normalizeConditions(
        IF IsDefined(opts.conditionSets[key]) THEN opts.conditionSets[key][1]
        ELSE <<key>> \o ConditionPriorityOf(opts))

\* new ExportTarget(value, opts): [threw |-> TRUE] when it throws
\* 'Invalid export target', the constructed object otherwise
ExportTargetConstructor(value, opts) ==
    LET priority      == ConditionPriorityOf(opts)
        sets          == [key \in {"default", "import", "require", "types"} |->
                             ConditionSetOf(opts, key)]
        defaultResult == _resolveFor(value, sets["default"])
        importResult  == _resolveFor(value, sets["import"])
        requireResult == _resolveFor(value, sets["require"])
        typesResult   == _resolveFor(value, sets["types"])
        default0      == Coalesce(defaultResult.target,
                         Coalesce(importResult.target,
                         Coalesce(requireResult.target, typesResult.target)))
        built(d)      == [constructed |-> TRUE,
                          default |-> d, import |-> importResult.target,
                          require |-> requireResult.target,
                          types |-> typesResult.target,
                          _target |-> value, _conditionPriority |-> priority,
                          _conditionSets |-> sets]
    IN  IF ~Truthy(default0) /\ ~Truthy(importResult.target)
           /\ ~Truthy(requireResult.target) /\ ~Truthy(typesResult.target)
        THEN LET fallback == _resolveFor(value, priority)
             IN  IF ~Truthy(fallback.target) /\ ~fallback.blocked
                 THEN [threw |-> TRUE, obj |-> NoObj]
                 ELSE [threw |-> FALSE, obj |-> built(fallback.target)]
        ELSE [threw |-> FALSE, obj |-> built(default0)]

\* resolve, had it passed the caller's list on as it came
resolveNotNormalized(this, conds) ==
    LET r == _resolveFor(this._target, conds)
    IN  IF r.blocked THEN Undefined ELSE r.target

\* target.resolve(conds)
resolve(this, conds) ==
    LET r == _resolveFor(this._target, _normalizeConditions(conds))
    IN  IF r.blocked THEN Undefined ELSE r.target

----------------------------------------------------------------------------
(* The nodes that a call of _resolveExportValue evaluates. A node is named *)
(* by its position: the root is <<>>, and the child stored at index i of   *)
(* the items of the node at position p is Append(p, i).                    *)

\* the index at which an object stores the value of a key it has
KeyIndex(value, condition) ==
    CHOOSE j \in 1..Len(value.keys) : value.keys[j] = condition

RECURSIVE EvaluatedArray(_, _, _, _), EvaluatedObject(_, _, _, _), Evaluated(_, _, _)

\* the array loop from items[i] on: the loop goes on after an item that is
\* blocked or absent and returns at the first item that gives a path
EvaluatedArray(value, conds, i, at) ==
    IF i > Len(value.items) THEN <<>>
    ELSE LET r == _resolveExportValue(value.items[i], conds)
             here == Evaluated(value.items[i], conds, Append(at, i))
         IN  IF r = Blocked \/ r = Absent
             THEN here \o EvaluatedArray(value, conds, i + 1, at)
             ELSE here

\* the condition loop from conds[i] on: the loop goes on after a key the
\* object does not have and after a value that is absent
EvaluatedObject(value, conds, i, at) ==
    IF i > Len(conds) THEN <<>>
    ELSE IF HasOwnProperty(value, conds[i])
         THEN LET child == Get(value, conds[i])
                  r == _resolveExportValue(child, conds)
                  here == Evaluated(child, conds,
                                    Append(at, KeyIndex(value, conds[i])))
              IN  IF r # Absent THEN here
                  ELSE here \o EvaluatedObject(value, conds, i + 1, at)
         ELSE EvaluatedObject(value, conds, i + 1, at)

\* the calls _resolveExportValue(value, conds) makes of itself, this one
\* included, value being the node at position at
Evaluated(value, conds, at) ==
    <<at>> \o (IF value.kind = "array" THEN EvaluatedArray(value, conds, 1, at)
               ELSE IF value.kind = "object" THEN EvaluatedObject(value, conds, 1, at)
               ELSE <<>>)

\* the resolutions `new ExportTarget(value, opts)` makes: one for each of
\* the four fields, and the fallback on the priority list when none of them
\* gave a path
ConstructorEvaluated(value, opts) ==
    LET sets     == [key \in {"default", "import", "require", "types"} |->
                        ConditionSetOf(opts, key)]
        four     == << Evaluated(value, sets["default"], <<>>),
                       Evaluated(value, sets["import"], <<>>),
                       Evaluated(value, sets["require"], <<>>),
                       Evaluated(value, sets["types"], <<>>) >>
        anyField == \E key \in {"default", "import", "require", "types"} :
                        Truthy(_resolveFor(value, sets[key]).target)
    IN  IF anyField THEN four
        ELSE Append(four, Evaluated(value, ConditionPriorityOf(opts), <<>>))

\* the resolution of resolve, had it passed the caller's list on as it came
resolveEvaluatedNotNormalized(this, conds) ==
    Evaluated(this._target, conds, <<>>)

\* the resolution target.resolve(conds) makes
resolveEvaluated(this, conds) ==
    Evaluated(this._target, _normalizeConditions(conds), <<>>)

----------------------------------------------------------------------------
(* ExportTarget of release 1.0.0: a string, or an object of strings keyed  *)
(* by default, import, require and types, read without conditions          *)

\* target[key] of a flat object
FlatField(value, key) ==
    IF HasOwnProperty(value, key) THEN Some(Get(value, key).path) ELSE Undefined

\* a || b
OrElse(a, b) == IF Truthy(a) THEN a ELSE b

\* new ExportTarget(value) of release 1.0.0
ExportTarget_1_0_0(value) ==
    IF value.kind = "string"
    THEN [threw |-> FALSE,
          default |-> Some(value.path), import |-> Some(value.path),
          require |-> Some(value.path), types |-> Some(value.path)]
    ELSE IF /\ ~Truthy(FlatField(value, "default"))
            /\ ~Truthy(FlatField(value, "import"))
            /\ ~Truthy(FlatField(value, "require"))
            /\ ~Truthy(FlatField(value, "types"))
    THEN [threw |-> TRUE,
          default |-> Undefined, import |-> Undefined,
          require |-> Undefined, types |-> Undefined]
    ELSE [threw |-> FALSE,
          default |-> OrElse(FlatField(value, "default"),
                      OrElse(FlatField(value, "import"),
                      OrElse(FlatField(value, "require"),
                             FlatField(value, "types")))),
          import |-> FlatField(value, "import"),
          require |-> FlatField(value, "require"),
          types |-> FlatField(value, "types")]

----------------------------------------------------------------------------
(* minimatch(path, pattern) of the minimatch library, default options, for *)
(* patterns made of literal characters, "/" and "*" (no braces, classes,   *)
(* "?", leading "!" or "#", and no part that starts with "." other than    *)
(* "." itself)                                                             *)

GLOBSTAR == <<"*", "*">>

HasStar(s) == \E i \in 1..Len(s) : s[i] = "*"

RECURSIVE SplitFrom(_, _, _)
\* s.split(/\/+/) from position i on, cur being the part read so far
SplitFrom(s, i, cur) ==
    IF i > Len(s) THEN <<cur>>
    ELSE IF s[i] = "/"
         THEN IF i < Len(s) /\ s[i + 1] = "/" THEN SplitFrom(s, i + 1, cur)
              ELSE <<cur>> \o SplitFrom(s, i + 1, <<>>)
         ELSE SplitFrom(s, i + 1, Append(cur, s[i]))

slashSplit(s) == SplitFrom(s, 1, <<>>)

RECURSIVE levelOneReduce(_, _)
\* the reduce of levelOneOptimize: "**" after "**" is dropped, ".." drops
\* the part before it
levelOneReduce(parts, set) ==
    IF parts = <<>> THEN set
    ELSE LET part == Head(parts)
             prev == IF set = <<>> THEN <<>> ELSE set[Len(set)]
         IN  IF part = GLOBSTAR /\ set # <<>> /\ prev = GLOBSTAR
             THEN levelOneReduce(Tail(parts), set)
             ELSE IF part = <<".", ".">> /\ prev # <<>>
                     /\ prev \notin {<<".", ".">>, <<".">>, GLOBSTAR}
             THEN levelOneReduce(Tail(parts), SubSeq(set, 1, Len(set) - 1))
             ELSE levelOneReduce(Tail(parts), Append(set, part))

levelOneOptimize(parts) ==
    LET set == levelOneReduce(parts, <<>>)
    IN  IF set = <<>> THEN << <<>> >> ELSE set

RECURSIVE WildMatch(_, _)
\* the regular expression of a pattern part: "*" is [^/]*?
WildMatch(p, f) ==
    IF p = <<>> THEN f = <<>>
    ELSE IF Head(p) = "*"
         THEN WildMatch(Tail(p), f) \/ (f # <<>> /\ WildMatch(p, Tail(f)))
         ELSE f # <<>> /\ Head(f) = Head(p) /\ WildMatch(Tail(p), Tail(f))

\* one path part against one parsed pattern part that is not GLOBSTAR: a
\* part without magic is compared as a string; a part with "*" matches no
\* empty part, and no part with a leading "." when it starts with "*"
MatchPart(p, f) ==
    IF ~HasStar(p) THEN f = p
    ELSE /\ f # <<>>
         /\ Head(p) = "*" => Head(f) # "."
         /\ WildMatch(p, f)

\* ".", ".." and dot files, which "**" does not swallow
DotPart(f) == f # <<>> /\ Head(f) = "."

RECURSIVE matchOne(_, _)
RECURSIVE GlobstarScan(_, _)

\* the while loop of the GLOBSTAR case: swallow leading parts of file until
\* the rest of the pattern matches
GlobstarScan(file, rest) ==
    IF file = <<>> THEN FALSE
    ELSE IF matchOne(file, rest) THEN TRUE
    ELSE IF DotPart(Head(file)) THEN FALSE
    ELSE GlobstarScan(Tail(file), rest)

\* Minimatch.matchOne(file, pattern, partial = false)
matchOne(file, pattern) ==
    IF file = <<>> \/ pattern = <<>>
    THEN IF file = <<>> /\ pattern = <<>> THEN TRUE
         ELSE IF file = <<>> THEN FALSE
         ELSE Len(file) = 1 /\ file[1] = <<>>
    ELSE IF Head(pattern) = GLOBSTAR
         THEN IF Len(pattern) = 1
              THEN \A i \in 1..Len(file) : ~DotPart(file[i])
              ELSE GlobstarScan(file, Tail(pattern))
         ELSE /\ MatchPart(Head(pattern), Head(file))
              /\ matchOne(Tail(file), Tail(pattern))

minimatch(path, pattern) ==
    IF pattern = <<>> THEN path = <<>>
    ELSE matchOne(slashSplit(path), levelOneOptimize(slashSplit(pattern)))

----------------------------------------------------------------------------
(* GlobResolver                                                            *)

STAR_GROUP == "([^/]*)"
DOUBLESTAR_GROUP == "(.*)"

RECURSIVE GlobTokens(_, _)
\* _globToRegex as a list of tokens: every character stands for itself
\* (the special ones are escaped), "**" is (.*) and a remaining "*" is
\* ([^/]*)
GlobTokens(pattern, i) ==
    IF i > Len(pattern) THEN <<>>
    ELSE IF pattern[i] = "*" /\ i < Len(pattern) /\ pattern[i + 1] = "*"
         THEN <<DOUBLESTAR_GROUP>> \o GlobTokens(pattern, i + 2)
    ELSE IF pattern[i] = "*"
         THEN <<STAR_GROUP>> \o GlobTokens(pattern, i + 1)
    ELSE <<pattern[i]>> \o GlobTokens(pattern, i + 1)

_globToRegex(pattern) == GlobTokens(pattern, 1)

Max(set) == CHOOSE m \in set : \A n \in set : n <= m

RECURSIVE RunLength(_, _)
\* the number of characters other than "/" of s from position i on
RunLength(s, i) ==
    IF i > Len(s) \/ s[i] = "/" THEN 0 ELSE 1 + RunLength(s, i + 1)

RECURSIVE RegexMatch(_, _, _, _)
\* importPath.match(new RegExp(`^${regexPattern}$`)) from token ti and
\* position si on: undefined without a match, else the captures of the
\* match a backtracking matcher finds first (each group as long as it can)
RegexMatch(tokens, s, ti, si) ==
    IF ti > Len(tokens)
    THEN IF si > Len(s) THEN Some(<<>>) ELSE Undefined
    ELSE IF tokens[ti] \in {STAR_GROUP, DOUBLESTAR_GROUP}
    THEN LET longest == IF tokens[ti] = STAR_GROUP THEN RunLength(s, si)
                        ELSE Len(s) - si + 1
             fits == {n \in 0..longest :
                         IsDefined(RegexMatch(tokens, s, ti + 1, si + n))}
         IN  IF fits = {} THEN Undefined
             ELSE LET n == Max(fits)
                  IN  Some(<<SubSeq(s, si, si + n - 1)>>
                           \o RegexMatch(tokens, s, ti + 1, si + n)[1])
    ELSE IF si <= Len(s) /\ s[si] = tokens[ti]
         THEN RegexMatch(tokens, s, ti + 1, si + 1)
         ELSE Undefined

_extractCaptures(pattern, subpath) ==
    LET match == RegexMatch(_globToRegex(pattern), subpath, 1, 1)
    IN  IF IsDefined(match) THEN match[1] ELSE <<>>

RECURSIVE ReplaceFrom(_, _, _, _, _)
\* result.replace(/\*\*/g or /\*/g, () => ...) from position i on: width is
\* the length of the marker, k the captureIndex so far
ReplaceFrom(s, i, width, captures, k) ==
    IF i > Len(s) THEN [out |-> <<>>, k |-> k]
    ELSE IF s[i] = "*" /\ (width = 1 \/ (i < Len(s) /\ s[i + 1] = "*"))
    THEN IF k < Len(captures)
         THEN LET rest == ReplaceFrom(s, i + width, width, captures, k + 1)
              IN  [out |-> captures[k + 1] \o rest.out, k |-> rest.k]
         ELSE LET rest == ReplaceFrom(s, i + width, width, captures, k)
              IN  [out |-> SubSeq(s, i, i + width - 1) \o rest.out, k |-> rest.k]
    ELSE LET rest == ReplaceFrom(s, i + 1, width, captures, k)
         IN  [out |-> <<s[i]>> \o rest.out, k |-> rest.k]

_replaceWildcards(targetPath, captures) ==
    LET doubles == ReplaceFrom(targetPath, 1, 2, captures, 0)
        singles == ReplaceFrom(doubles.out, 1, 1, captures, doubles.k)
    IN  singles.out

RECURSIVE _substituteExportValue(_, _)
RECURSIVE DropNulls(_)
\* xs without its null entries
DropNulls(xs) ==
    IF xs = <<>> THEN <<>>
    ELSE IF Head(xs) = NullValue THEN DropNulls(Tail(xs))
    ELSE <<Head(xs)>> \o DropNulls(Tail(xs))

\* _substituteExportValue, had it left the null entries out of the arrays
\* and the null-valued keys out of the objects
_substituteExportValuePruning(value, captures) ==
    IF value.kind = "string" THEN Str(_replaceWildcards(value.path, captures))
    ELSE IF value.kind = "null" THEN NullValue
    ELSE IF value.kind = "array"
    THEN Arr(DropNulls([i \in 1..Len(value.items) |->
                 _substituteExportValue(value.items[i], captures)]))
    ELSE LET kept == {i \in 1..Len(value.items) : value.items[i] # NullValue}
             nth(k) == CHOOSE i \in kept : Cardinality({j \in kept : j <= i}) = k
         IN  Obj([k \in 1..Cardinality(kept) |-> value.keys[nth(k)]],
                 [k \in 1..Cardinality(kept) |->
                     _substituteExportValue(value.items[nth(k)], captures)])

\* _substituteExportValue, had it turned a leaf that the captures leave
\* empty into null
_substituteExportValueEmptyAsNull(value, captures) ==
    IF value.kind = "string"
    THEN IF _replaceWildcards(value.path, captures) = EmptyString THEN NullValue
         ELSE Str(_replaceWildcards(value.path, captures))
    ELSE IF value.kind = "null" THEN NullValue
    ELSE IF value.kind = "array"
    THEN Arr([i \in 1..Len(value.items) |->
                 _substituteExportValue(value.items[i], captures)])
    ELSE Obj(value.keys,
             [i \in 1..Len(value.items) |->
                 _substituteExportValue(value.items[i], captures)])

_substituteExportValue(value, captures) ==
    IF value.kind = "string" THEN Str(_replaceWildcards(value.path, captures))
    ELSE IF value.kind = "null" THEN NullValue
    ELSE IF value.kind = "array"
    THEN Arr([i \in 1..Len(value.items) |->
                 _substituteExportValue(value.items[i], captures)])
    ELSE Obj(value.keys,
             [i \in 1..Len(value.items) |->
                 _substituteExportValue(value.items[i], captures)])

\* what resolveImport does with the entry it selected
ResolveEntry(entry, subpath, opts) ==
    IF ~HasStar(entry.pattern)
    THEN ExportTargetConstructor(entry.target, opts)
    ELSE ExportTargetConstructor(
             _substituteExportValue(entry.target,
                                    _extractCaptures(entry.pattern, subpath)),
             opts)

\* resolveImport, had a literal key equal to the subpath been preferred to
\* an earlier pattern that matches
resolveImportLiteralFirst(entries, subpath, opts) ==
    LET hits == {i \in 1..Len(entries) : minimatch(subpath, entries[i].pattern)}
        exact == {i \in hits : entries[i].pattern = subpath}
    IN  IF hits = {} THEN [selected |-> 0, threw |-> FALSE, obj |-> NoObj]
        ELSE LET i == IF exact # {} THEN Min(exact) ELSE Min(hits)
                 r == ResolveEntry(entries[i], subpath, opts)
             IN  [selected |-> i, threw |-> r.threw, obj |-> r.obj]

\* resolveImport, had a subpath that no pattern matches been an error
resolveImportThrowOnMiss(entries, subpath, opts) ==
    LET hits == {i \in 1..Len(entries) : minimatch(subpath, entries[i].pattern)}
    IN  IF hits = {} THEN [selected |-> 0, threw |-> TRUE, obj |-> NoObj]
        ELSE LET i == Min(hits)
                 r == ResolveEntry(entries[i], subpath, opts)
             IN  [selected |-> i, threw |-> r.threw, obj |-> r.obj]

\* resolveImport, had it gone on to the next matching entry when building
\* from the first one throws
resolveImportSkippingInvalid(entries, subpath, opts) ==
    LET hits == {i \in 1..Len(entries) : minimatch(subpath, entries[i].pattern)}
        good == {i \in hits : ~ResolveEntry(entries[i], subpath, opts).threw}
    IN  IF hits = {} THEN [selected |-> 0, threw |-> FALSE, obj |-> NoObj]
        ELSE IF good = {}
        THEN [selected |-> Min(hits), threw |-> TRUE, obj |-> NoObj]
        ELSE [selected |-> Min(good), threw |-> FALSE,
              obj |-> ResolveEntry(entries[Min(good)], subpath, opts).obj]

\* GlobResolver.resolveImport(importPath, opts) on the table entries:
\* selected is the index of the entry it stopped at, 0 when it returned
\* undefined
resolveImport(entries, subpath, opts) ==
    LET hits == {i \in 1..Len(entries) : minimatch(subpath, entries[i].pattern)}
    IN  IF hits = {} THEN [selected |-> 0, threw |-> FALSE, obj |-> NoObj]
        ELSE LET i == Min(hits)
                 r == ResolveEntry(entries[i], subpath, opts)
             IN  [selected |-> i, threw |-> r.threw, obj |-> r.obj]

\* PackageJson.resolveImport(importPath, opts), exportsOpt being data.exports
PackageJson_resolveImport(exportsOpt, subpath, opts) ==
    IF ~IsDefined(exportsOpt)
    THEN [selected |-> 0, threw |-> FALSE, obj |-> NoObj]
    ELSE resolveImport(exportsOpt[1], subpath, opts)

----------------------------------------------------------------------------
(* path.join of node:path (posix), as BasePackage uses it                  *)

RECURSIVE normalizeString(_, _)
\* normalizeString for an absolute path, on the parts between the "/" of the
\* path: empty parts and "." are dropped, ".." drops the part before it
normalizeString(parts, res) ==
    IF parts = <<>> THEN res
    ELSE LET part == Head(parts)
         IN  IF part = <<>> \/ part = <<".">>
             THEN normalizeString(Tail(parts), res)
             ELSE IF part = <<".", ".">>
             THEN normalizeString(Tail(parts),
                                  IF res = <<>> THEN res
                                  ELSE SubSeq(res, 1, Len(res) - 1))
             ELSE normalizeString(Tail(parts), Append(res, part))

RECURSIVE JoinParts(_)
\* parts.join('/')
JoinParts(parts) ==
    IF parts = <<>> THEN <<>>
    ELSE IF Len(parts) = 1 THEN parts[1]
    ELSE parts[1] \o <<"/">> \o JoinParts(Tail(parts))

\* path.normalize(p) for an absolute p
normalize(p) ==
    LET trailingSeparator == p[Len(p)] = "/"
        body == JoinParts(normalizeString(SplitFrom(p, 1, <<>>), <<>>))
    IN  IF body = <<>> THEN <<"/">>
        ELSE <<"/">> \o body \o (IF trailingSeparator THEN <<"/">> ELSE <<>>)

\* path.join(root, rel) for an absolute root: empty arguments are skipped
join(root, rel) ==
    IF rel = <<>> THEN normalize(root) ELSE normalize(root \o <<"/">> \o rel)

----------------------------------------------------------------------------
(* BasePackage.resolveImport (TurboPackage, TurboApp) and the Proxy it     *)
(* returns                                                                 *)

\* the result of reading a property: a value (string | undefined), or a
\* TypeError thrown by path.join for an argument that is no string
Value(v) == [threw |-> FALSE, value |-> v]
TypeError == [threw |-> TRUE, value |-> Undefined]

\* the own properties of an ExportTarget that hold string | undefined
StringFields == {"default", "import", "require", "types"}
\* every property name for which `prop in target` holds: the own properties
\* (assigned by the constructor, also when the value is undefined) and the
\* methods of the prototype
PropsInTarget ==
    StringFields \cup {"_target", "_conditionPriority", "_conditionSets",
                       "resolve", "_resolveFor", "_resolveExportValue",
                       "_normalizeConditions", "constructor"}

\* the get trap, had it handed out the field of the underlying target
ProxyGetRelative(root, this, p) ==
    IF p \in PropsInTarget
    THEN IF p \in StringFields /\ IsDefined(this[p])
         THEN Value(this[p])
         ELSE TypeError
    ELSE Value(Undefined)

\* the get trap of the Proxy: path.join(this.path, target[prop]) for every
\* prop in target, undefined for any other
ProxyGet(root, this, p) ==
    IF p \in PropsInTarget
    THEN IF p \in StringFields /\ IsDefined(this[p])
         THEN Value(Some(join(root, this[p][1])))
         ELSE TypeError
    ELSE Value(Undefined)

\* BasePackage.resolveImport(importPath): proxied is FALSE when it returned
\* undefined or threw
BasePackage_resolveImport(exportsOpt, subpath) ==
    LET r == PackageJson_resolveImport(exportsOpt, subpath, NoOptions)
    IN  [selected |-> r.selected, threw |-> r.threw, obj |-> r.obj,
         proxied |-> ~r.threw /\ r.obj.constructed]

NoGet == Value(Undefined)

----------------------------------------------------------------------------
(* Turbo: packages, apps, allWorkspaces and _getItemsFromDirectory, over a *)
(* file system seen through IFileSystemAdapter                             *)

\* what readdirSync gives for the packages and the apps directory, in its
\* order
PackageDirs == <<"p", "q">>
AppDirs == <<"a">>

\* what a name in one of these directories is: nothing, a plain file, a
\* directory without package.json, a directory whose package.json does not
\* parse, or a directory whose package.json has the given name
ManifestNames == {"x", "y"}
EntryKinds == {"none", "file", "bare", "broken"} \cup ManifestNames

\* fs.existsSync(itemPath/package.json)
HasManifest(entry) == entry \in {"broken"} \cup ManifestNames
\* fs.isDirectory(itemPath)
IsDirectory(entry) == entry \in {"bare", "broken"} \cup ManifestNames

\* the result of a getter: the items, or an exception of a constructor
Items(xs) == [threw |-> FALSE, items |-> xs]
Thrown == [threw |-> TRUE, items |-> <<>>]

\* new ItemClass(itemPath, fs): path, and name read from package.json
Item(class, dir, name, entry) ==
    [class |-> class, path |-> <<dir, name>>, name |-> entry]

RECURSIVE MapItems(_, _, _, _)
\* itemNames.map(dirName => new ItemClass(itemPath, this.fs)) from position
\* i on; PackageJson._load throws for a package.json that does not parse
MapItems(class, dir, names, entries) ==
    IF names = <<>> THEN Items(<<>>)
    ELSE IF entries[Head(names)] = "broken" THEN Thrown
    ELSE LET rest == MapItems(class, dir, Tail(names), entries)
         IN  IF rest.threw THEN Thrown
             ELSE Items(<<Item(class, dir, Head(names), entries[Head(names)])>>
                            \o rest.items)

\* Turbo._getItemsFromDirectory(dirPath, ItemClass)
_getItemsFromDirectory(class, dir, exists, order, entries) ==
    IF ~exists THEN Items(<<>>)
    ELSE MapItems(class, dir,
                  SelectSeq(order, LAMBDA d : IsDirectory(entries[d])
                                               /\ HasManifest(entries[d])),
                  entries)

\* get packages()
packages(f) ==
    _getItemsFromDirectory("TurboPackage", "packages", f.packagesExists,
                           PackageDirs, f.packages)

\* get apps()
apps(f) ==
    _getItemsFromDirectory("TurboApp", "apps", f.appsExists,
                           AppDirs, f.apps)

\* get allWorkspaces()
allWorkspaces(f) ==
    LET ps == IF f.packagesExists THEN packages(f) ELSE Items(<<>>)
    IN  IF ps.threw THEN Thrown
        ELSE LET as == IF f.appsExists THEN apps(f) ELSE Items(<<>>)
             IN  IF as.threw THEN Thrown ELSE Items(ps.items \o as.items)

\* nothing read yet
NoRead == [getter |-> "none", result |-> Items(<<>>)]

NoFs == [packagesExists |-> FALSE, appsExists |-> FALSE,
         packages |-> [d \in {"p", "q"} |-> "none"],
         apps |-> [d \in {"a"} |-> "none"]]

\* no package is involved
NoPackage ==
    /\ packagePath = <<>>
    /\ proxied = FALSE
    /\ prop = ""
    /\ got = NoGet
    /\ fs = NoFs
    /\ listed = NoRead
    /\ previous = NoRead

----------------------------------------------------------------------------
(* The inputs *)

Paths == {EmptyString, S("a"), S("b")}
CondKeys == {"default", "import", "require", "custom"}

\* injective sequences of length k over CondKeys: the keys of a JS object
RECURSIVE KeySeqs(_)
KeySeqs(k) ==
    IF k = 0 THEN {<<>>}
    ELSE {Append(ks, c) : ks \in KeySeqs(k - 1), c \in CondKeys} \cap
         {ks \in [1..k -> CondKeys] : \A i, j \in 1..k : i # j => ks[i] # ks[j]}

RECURSIVE TreesOfSize(_)
RECURSIVE Forests(_)
\* sequences of trees with m nodes in all
Forests(m) ==
    IF m = 0 THEN {<<>>}
    ELSE UNION {{<<t>> \o f : t \in TreesOfSize(s), f \in Forests(m - s)} : s \in 1..m}

TreesOfSize(n) ==
    (IF n = 1 THEN {Str(p) : p \in Paths} \cup {NullValue} ELSE {})
    \cup {Arr(f) : f \in Forests(n - 1)}
    \cup UNION {{Obj(ks, f) : ks \in KeySeqs(Len(f))} : f \in Forests(n - 1)}

ExportValues == UNION {TreesOfSize(n) : n \in 1..MaxNodes}

\* the names a caller's list is made of: keys of the trees; "require" is a
\* key that no caller's list names
CondNames == {"default", "import", "custom"}
\* what a caller may pass as a condition list (duplicates allowed)
RawCondLists == UNION {[1..n -> CondNames] : n \in 0..MaxConds}
\* what _resolveExportValue is called with
CondLists == {_normalizeConditions(c) : c \in RawCondLists}
                \cup {_normalizeConditions(DEFAULT_CONDITION_PRIORITY)}


----------------------------------------------------------------------------
(* Specification of the pure resolver: the inputs are drawn in Init and    *)
(* the action applies _resolveExportValue to them. The function reads      *)
(* nothing but its arguments, so a behaviour is one call.                  *)

InitValue ==
    /\ target \in ExportValues
    /\ options = NoOptions
    /\ obj = NoObj
    /\ threw = FALSE
    /\ conditions = <<>>
    /\ resolved = Absent
    /\ returned = Undefined
    /\ op = "init"
    /\ patterns = <<>>
    /\ importPath = <<>>
    /\ selected = 0
    /\ exportsField = Undefined
    /\ NoPackage
    /\ evaluated = <<>>

CallResolveExportValue ==
    \E c \in CondLists :
        /\ op = "init"
        /\ conditions' = c
        /\ resolved' = _resolveExportValue(target, c)
        /\ op' = "_resolveExportValue"
        /\ UNCHANGED <<target, options, obj, threw, returned, globVars, evaluated>>

NextValue == CallResolveExportValue

SpecValue == InitValue /\ [][NextValue]_vars

----------------------------------------------------------------------------
(* Specification of ExportTarget: construct one from (target, options),    *)
(* then call resolve on it. All fields of the object are readonly and      *)
(* resolve assigns none, so a behaviour is `new ExportTarget(..)` followed *)
(* by one resolve call; either may then be done a second time with the     *)
(* same arguments.                                                         *)

OptionChoices ==
    { NoOptions,
      [conditionPriority |-> Some(<<"custom">>), conditionSets |-> NoConditionSets],
      [conditionPriority |-> Undefined,
       conditionSets |-> [default |-> Some(<<"require", "require">>),
                          import |-> Some(<<"custom">>),
                          require |-> Undefined, types |-> Undefined]] }

Init ==
    /\ target \in ExportValues
    /\ options \in OptionChoices
    /\ obj = NoObj
    /\ threw = FALSE
    /\ conditions = <<>>
    /\ resolved = Absent
    /\ returned = Undefined
    /\ op = "init"
    /\ patterns = <<>>
    /\ importPath = <<>>
    /\ selected = 0
    /\ exportsField = Undefined
    /\ NoPackage
    /\ evaluated = <<>>

Construct ==
    /\ op = "init"
    /\ \E r \in {ExportTargetConstructor(target, options)} :
           /\ obj' = r.obj
           /\ threw' = r.threw
    /\ evaluated' = ConstructorEvaluated(target, options)
    /\ op' = "constructor"
    /\ UNCHANGED <<target, options, conditions, resolved, returned, globVars>>

\* a second `new ExportTarget(target, options)` from the same arguments
ConstructAgain ==
    /\ op = "constructor"
    /\ \E r \in {ExportTargetConstructor(target, options)} :
           /\ obj' = r.obj
           /\ threw' = r.threw
    /\ evaluated' = ConstructorEvaluated(target, options)
    /\ op' = "constructor again"
    /\ UNCHANGED <<target, options, conditions, resolved, returned, globVars>>

\* Resolve, had the call used up the stored root
ResolveConsuming ==
    \E c \in RawCondLists :
        /\ op = "constructor"
        /\ obj.constructed
        /\ conditions' = c
        /\ returned' = resolve(obj, c)
        /\ evaluated' = <<resolveEvaluated(obj, c)>>
        /\ obj' = [obj EXCEPT !._target = NullValue]
        /\ op' = "resolve"
        /\ UNCHANGED <<target, options, threw, resolved, globVars>>

Resolve ==
    \E c \in RawCondLists :
        /\ op = "constructor"
        /\ obj.constructed
        /\ conditions' = c
        /\ returned' = resolve(obj, c)
        /\ evaluated' = <<resolveEvaluated(obj, c)>>
        /\ op' = "resolve"
        /\ UNCHANGED <<target, options, obj, threw, resolved, globVars>>

\* a second obj.resolve(conditions) with the list of the first call
ResolveAgain ==
    /\ op = "resolve"
    /\ returned' = resolve(obj, conditions)
    /\ evaluated' = <<resolveEvaluated(obj, conditions)>>
    /\ op' = "resolve again"
    /\ UNCHANGED <<target, options, obj, threw, conditions, resolved, globVars>>

Next == Construct \/ ConstructAgain \/ Resolve \/ ResolveAgain

Spec == Init /\ [][Next]_vars

----------------------------------------------------------------------------
(* Specification of PackageJson.resolveImport and the GlobResolver it      *)
(* builds: the exports field of the manifest, a subpath and options are    *)
(* drawn in Init and resolveImport is applied to them.                     *)

RECURSIVE Join(_)
\* the parts joined by "/"
Join(parts) ==
    IF Len(parts) = 1 THEN parts[1]
    ELSE parts[1] \o <<"/">> \o Join(Tail(parts))

\* ".", "./a", "./*", "./a/*", "./**/*"
GlobPatterns ==
    { Join(<<S(".")>>), Join(<<S("."), S("a")>>), Join(<<S("."), S("*")>>),
      Join(<<S("."), S("a"), S("*")>>), Join(<<S("."), GLOBSTAR, S("*")>>) }

\* ".", "./a", "./b", "./a/b", "./a/", "./.a", "./a//b"
ImportPaths ==
    { Join(<<S(".")>>), Join(<<S("."), S("a")>>), Join(<<S("."), S("b")>>),
      Join(<<S("."), S("a"), S("b")>>), Join(<<S("."), S("a"), <<>>>>),
      Join(<<S("."), <<".", "a">>>>), Join(<<S("."), S("a"), <<>>, S("b")>>) }

\* '', 'a', '**/*', '*/**', {}, [null, './*'],
\* {import: {custom: '*a'}, default: null}
GlobTargets ==
    { Str(EmptyString), Str(S("a")),
      Str(Join(<<GLOBSTAR, S("*")>>)), Str(Join(<<S("*"), GLOBSTAR>>)),
      Obj(<<>>, <<>>), Arr(<<NullValue, Str(<<".", "/", "*">>)>>),
      Obj(<<"import", "default">>,
          <<Obj(<<"custom">>, <<Str(<<"*", "a">>)>>), NullValue>>) }

Entries == [pattern : GlobPatterns, target : GlobTargets]

\* the tables of n entries; the patterns are the keys of an object, so no
\* two entries share one
TablesOfLength(n) ==
    {t \in [1..n -> Entries] :
        \A i, j \in 1..n : i # j => t[i].pattern # t[j].pattern}

PatternTables == UNION {TablesOfLength(n) : n \in 0..MaxPatterns}

GlobOptionChoices ==
    { NoOptions,
      [conditionPriority |-> Some(<<"custom">>), conditionSets |-> NoConditionSets] }

InitGlob ==
    /\ target = NullValue
    /\ options \in GlobOptionChoices
    /\ obj = NoObj
    /\ threw = FALSE
    /\ conditions = <<>>
    /\ resolved = Absent
    /\ returned = Undefined
    /\ op = "init"
    /\ patterns = <<>>
    /\ importPath \in ImportPaths
    /\ selected = 0
    /\ exportsField \in {Undefined} \cup {Some(t) : t \in PatternTables}
    /\ NoPackage
    /\ evaluated = <<>>

\* packageJson.resolveImport(importPath, options); patterns is the table of
\* the GlobResolver it constructs
CallResolveImport ==
    /\ op = "init"
    /\ \E r \in {PackageJson_resolveImport(exportsField, importPath, options)} :
           /\ obj' = r.obj
           /\ threw' = r.threw
           /\ selected' = r.selected
    /\ patterns' = IF IsDefined(exportsField) THEN exportsField[1] ELSE patterns
    /\ op' = "resolveImport"
    /\ UNCHANGED <<target, options, conditions, resolved, returned,
                   importPath, exportsField, turboVars, evaluated>>

NextGlob == CallResolveImport

SpecGlob == InitGlob /\ [][NextGlob]_vars

----------------------------------------------------------------------------
(* Specification of one GlobResolver that is called again and again: the   *)
(* table is drawn in Init, and every call draws a subpath and options      *)

\* "./a", "./*", "./**/*"
CallPatterns ==
    { Join(<<S("."), S("a")>>), Join(<<S("."), S("*")>>),
      Join(<<S("."), GLOBSTAR, S("*")>>) }

\* 'a', {}, [null, './*'], {import: {custom: '*a'}, default: null}
CallTargets ==
    { Str(S("a")), Obj(<<>>, <<>>), Arr(<<NullValue, Str(<<".", "/", "*">>)>>),
      Obj(<<"import", "default">>,
          <<Obj(<<"custom">>, <<Str(<<"*", "a">>)>>), NullValue>>) }

CallTables ==
    UNION { {t \in [1..n -> [pattern : CallPatterns, target : CallTargets]] :
                \A i, j \in 1..n : i # j => t[i].pattern # t[j].pattern} :
            n \in 0..MaxPatterns }

\* the calls of one resolver: the first, one after a call that returned,
\* one after a call that threw
ResolverCalls ==
    {"resolveImport", "resolveImport again", "resolveImport after a throw"}

\* new GlobResolver(table): exportsField keeps the table as it was given
InitResolver ==
    /\ target = NullValue
    /\ options = NoOptions
    /\ obj = NoObj
    /\ threw = FALSE
    /\ conditions = <<>>
    /\ resolved = Absent
    /\ returned = Undefined
    /\ op = "new GlobResolver"
    /\ \E t \in CallTables :
           /\ patterns = t
           /\ exportsField = Some(t)
    /\ importPath = EmptyString
    /\ selected = 0
    /\ NoPackage
    /\ evaluated = <<>>

\* resolver.resolveImport(importPath, options), had _substituteExportValue
\* written the substituted tree over the stored one
ResolverCallInPlace ==
    \E p \in ImportPaths, o \in GlobOptionChoices :
        /\ importPath' = p
        /\ options' = o
        /\ \E r \in {resolveImport(patterns, p, o)} :
               /\ obj' = r.obj
               /\ threw' = r.threw
               /\ selected' = r.selected
               /\ patterns' =
                     IF r.selected # 0 /\ HasStar(patterns[r.selected].pattern)
                     THEN [patterns EXCEPT ![r.selected].target =
                              _substituteExportValue(
                                  patterns[r.selected].target,
                                  _extractCaptures(patterns[r.selected].pattern, p))]
                     ELSE patterns
        /\ op' = IF op = "new GlobResolver" THEN "resolveImport"
                 ELSE IF threw THEN "resolveImport after a throw"
                 ELSE "resolveImport again"
        /\ UNCHANGED <<target, conditions, resolved, returned, exportsField,
                       turboVars, evaluated>>

\* resolver.resolveImport(importPath, options)
ResolverCall ==
    \E p \in ImportPaths, o \in GlobOptionChoices :
        /\ importPath' = p
        /\ options' = o
        /\ \E r \in {resolveImport(patterns, p, o)} :
               /\ obj' = r.obj
               /\ threw' = r.threw
               /\ selected' = r.selected
        /\ op' = IF op = "new GlobResolver" THEN "resolveImport"
                 ELSE IF threw THEN "resolveImport after a throw"
                 ELSE "resolveImport again"
        /\ UNCHANGED <<target, conditions, resolved, returned, patterns,
                       exportsField, turboVars, evaluated>>

NextResolver == ResolverCall

SpecResolver == InitResolver /\ [][NextResolver]_vars

----------------------------------------------------------------------------
(* Specification of substitution followed by resolution: a "*" pattern, a  *)
(* stored tree, a subpath and a condition list are drawn in Init; the      *)
(* action substitutes the captures of the subpath into the tree, as        *)
(* resolveImport does, and resolves the result, as the constructor does    *)

\* "./*", "./a/*", "./**/*"
StarPatterns == { pattern \in GlobPatterns : HasStar(pattern) }

\* the targets of GlobTargets, and {custom: '*', default: '**'},
\* [{import: '*'}, 'a'], [null], {custom: null, default: '*'}
SubstituteTargets ==
    GlobTargets \cup
    { Obj(<<"custom", "default">>, <<Str(S("*")), Str(GLOBSTAR)>>),
      Arr(<<Obj(<<"import">>, <<Str(S("*"))>>), Str(S("a"))>>),
      Arr(<<NullValue>>),
      Obj(<<"custom", "default">>, <<NullValue, Str(S("*"))>>) }

InitSubstitute ==
    /\ target = NullValue
    /\ options = NoOptions
    /\ obj = NoObj
    /\ threw = FALSE
    /\ conditions \in CondLists
    /\ resolved = Absent
    /\ returned = Undefined
    /\ op = "init"
    /\ \E pattern \in StarPatterns, t \in SubstituteTargets :
           patterns = <<[pattern |-> pattern, target |-> t]>>
    /\ importPath \in ImportPaths
    /\ selected = 0
    /\ exportsField = Undefined
    /\ NoPackage
    /\ evaluated = <<>>

\* target is the substituted tree, resolved its resolution
SubstituteThenResolve ==
    /\ op = "init"
    /\ \E t \in {_substituteExportValue(
                     patterns[1].target,
                     _extractCaptures(patterns[1].pattern, importPath))} :
           /\ target' = t
           /\ resolved' = _resolveExportValue(t, conditions)
    /\ op' = "_substituteExportValue"
    /\ UNCHANGED <<options, obj, threw, conditions, returned, globVars, evaluated>>

NextSubstitute == SubstituteThenResolve

SpecSubstitute == InitSubstitute /\ [][NextSubstitute]_vars

----------------------------------------------------------------------------
(* Specification of TurboPackage / TurboApp: the manifest's exports field  *)
(* and a subpath are drawn in Init, resolveImport is called on the package *)
(* and properties are read on the Proxy it returns.                        *)

\* "/r"
PackagePaths == { <<"/", "r">> }

\* the properties read on the Proxy: the four fields, a method and a name
\* the target does not have
PropsRead == StringFields \cup {"resolve", "missing"}

InitTurbo ==
    /\ target = NullValue
    /\ options = NoOptions
    /\ obj = NoObj
    /\ threw = FALSE
    /\ conditions = <<>>
    /\ resolved = Absent
    /\ returned = Undefined
    /\ op = "init"
    /\ patterns = <<>>
    /\ importPath \in ImportPaths
    /\ selected = 0
    /\ exportsField \in {Undefined} \cup {Some(t) : t \in PatternTables}
    /\ packagePath \in PackagePaths
    /\ proxied = FALSE
    /\ prop = ""
    /\ got = NoGet
    /\ fs = NoFs
    /\ listed = NoRead
    /\ previous = NoRead
    /\ evaluated = <<>>

\* pkg.resolveImport(importPath)
TurboResolveImport ==
    /\ op = "init"
    /\ \E r \in {BasePackage_resolveImport(exportsField, importPath)} :
           /\ obj' = r.obj
           /\ threw' = r.threw
           /\ selected' = r.selected
           /\ proxied' = r.proxied
    /\ patterns' = IF IsDefined(exportsField) THEN exportsField[1] ELSE patterns
    /\ op' = "TurboPackage.resolveImport"
    /\ UNCHANGED <<target, options, conditions, resolved, returned,
                   importPath, exportsField, packagePath, prop, got,
                   workspaceVars, evaluated>>

\* reading property p of the Proxy that resolveImport returned
ReadProperty ==
    \E p \in PropsRead :
        /\ op = "TurboPackage.resolveImport"
        /\ proxied
        /\ prop' = p
        /\ got' = ProxyGet(packagePath, obj, p)
        /\ op' = "get"
        /\ UNCHANGED <<target, options, obj, threw, conditions, resolved,
                       returned, patterns, importPath, selected, exportsField,
                       packagePath, proxied, workspaceVars, evaluated>>

NextTurbo == TurboResolveImport \/ ReadProperty

SpecTurbo == InitTurbo /\ [][NextTurbo]_vars

----------------------------------------------------------------------------
(* Specification of a Turbo whose file system changes between the reads   *)
(* of packages, apps and allWorkspaces                                     *)

\* the states of the file system: a directory that does not exist has no
\* entries
FsStates ==
    { f \in [packagesExists : BOOLEAN, appsExists : BOOLEAN,
              packages : [{"p", "q"} -> EntryKinds],
              apps : [{"a"} -> EntryKinds]] :
        /\ (~f.packagesExists => \A d \in {"p", "q"} : f.packages[d] = "none")
        /\ (~f.appsExists => f.apps["a"] = "none") }

InitWorkspace ==
    /\ target = Str(EmptyString)
    /\ options = NoOptions
    /\ obj = NoObj
    /\ threw = FALSE
    /\ conditions = <<>>
    /\ resolved = Undefined
    /\ returned = Undefined
    /\ op = "new Turbo"
    /\ patterns = <<>>
    /\ importPath = EmptyString
    /\ selected = Undefined
    /\ exportsField = Undefined
    /\ packagePath = <<>>
    /\ proxied = FALSE
    /\ prop = ""
    /\ got = NoGet
    /\ fs \in FsStates
    /\ listed = NoRead
    /\ previous = NoRead
    /\ evaluated = <<>>

\* what the reads leave alone
ReadFrame ==
    UNCHANGED <<target, options, obj, threw, conditions, resolved, returned,
                patterns, importPath, selected, exportsField, packagePath,
                proxied, prop, got, evaluated>>

\* a file, a directory or a package.json below packages/ or apps/ is
\* created, removed or rewritten by another program
FsChange ==
    /\ \/ \E d \in {"p", "q"}, k \in EntryKinds :
             /\ fs.packagesExists
             /\ fs.packages[d] # k
             /\ fs' = [fs EXCEPT !.packages[d] = k]
       \/ \E k \in EntryKinds :
             /\ fs.appsExists
             /\ fs.apps["a"] # k
             /\ fs' = [fs EXCEPT !.apps["a"] = k]
       \/ fs' = [fs EXCEPT !.packagesExists = ~fs.packagesExists,
                           !.packages = [d \in {"p", "q"} |-> "none"]]
       \/ fs' = [fs EXCEPT !.appsExists = ~fs.appsExists,
                           !.apps = [d \in {"a"} |-> "none"]]
    /\ op' = "change"
    /\ UNCHANGED <<listed, previous>>
    /\ ReadFrame

\* turbo.packages, had the getter kept what it returned the first time
ReadPackagesStale ==
    /\ listed' = [getter |-> "packages",
                  result |-> IF listed.getter = "packages" THEN listed.result
                             ELSE packages(fs)]
    /\ previous' = listed
    /\ op' = "packages"
    /\ UNCHANGED fs
    /\ ReadFrame

\* turbo.packages
ReadPackages ==
    /\ listed' = [getter |-> "packages", result |-> packages(fs)]
    /\ previous' = listed
    /\ op' = "packages"
    /\ UNCHANGED fs
    /\ ReadFrame

\* turbo.apps
ReadApps ==
    /\ listed' = [getter |-> "apps", result |-> apps(fs)]
    /\ previous' = listed
    /\ op' = "apps"
    /\ UNCHANGED fs
    /\ ReadFrame

\* turbo.allWorkspaces
ReadAllWorkspaces ==
    /\ listed' = [getter |-> "allWorkspaces", result |-> allWorkspaces(fs)]
    /\ previous' = listed
    /\ op' = "allWorkspaces"
    /\ UNCHANGED fs
    /\ ReadFrame

NextWorkspace == FsChange \/ ReadPackages \/ ReadApps \/ ReadAllWorkspaces

SpecWorkspace == InitWorkspace /\ [][NextWorkspace]_vars

----------------------------------------------------------------------------
(* Properties of _resolveExportValue, checked under SpecValue              *)

Called == op = "_resolveExportValue"

\* index in conds of the first condition that is a key of value and whose
\* value does not resolve to Absent; 0 when there is none
FirstLive(value, conds) ==
    LET live == {i \in 1..Len(conds) :
                    /\ HasOwnProperty(value, conds[i])
                    /\ _resolveExportValue(Get(value, conds[i]), conds) # Absent}
    IN  IF live = {} THEN 0 ELSE Min(live)

Perms(n) == {p \in [1..n -> 1..n] : \A i, j \in 1..n : i # j => p[i] # p[j]}

\* every tree obtained from value by permuting the keys of its objects
RECURSIVE KeyPermutations(_)
KeyPermutations(value) ==
    LET n == Len(value.items)
        children == {c \in [1..n -> UNION {KeyPermutations(value.items[i]) : i \in 1..n}] :
                        \A i \in 1..n : c[i] \in KeyPermutations(value.items[i])}
    IN  IF value.kind = "array" THEN {Arr(c) : c \in children}
        ELSE IF value.kind = "object"
        THEN {Obj([i \in 1..n |-> value.keys[p[i]]], [i \in 1..n |-> c[p[i]]]) :
                 p \in Perms(n), c \in children}
        ELSE {value}

\* C1: an object resolves to the resolution of the first condition of the
\* caller's list that is one of its keys and does not resolve to Absent
\* (Absent when there is none), and permuting the keys of any object of the
\* tree leaves the result unchanged.
C1_ConditionOrderDecides ==
    Called =>
        /\ target.kind = "object" =>
              LET i == FirstLive(target, conditions)
              IN  resolved = IF i = 0 THEN Absent
                             ELSE _resolveExportValue(Get(target, conditions[i]), conditions)
        /\ \A t \in KeyPermutations(target) :
              _resolveExportValue(t, conditions) = resolved

\* the first key of the object and the first matching condition disagree,
\* and the two entries resolve differently
C1_Witness ==
    /\ Called
    /\ target.kind = "object"
    /\ Len(target.keys) >= 2
    /\ FirstLive(target, conditions) # 0
    /\ conditions[FirstLive(target, conditions)] # target.keys[1]
    /\ \E j \in 1..Len(conditions) : conditions[j] = target.keys[1]
    /\ _resolveExportValue(target.items[1], conditions) \notin {Absent, resolved}
    /\ resolved.tag = "string"

\* C2: when the first condition of the list that is a key with a non-Absent
\* value resolves to Blocked, the object resolves to Blocked, whatever a
\* later condition of the list would give.
C2_BlockedDoesNotFallThrough ==
    (Called /\ target.kind = "object") =>
        \A i \in 1..Len(conditions) :
            ( /\ HasOwnProperty(target, conditions[i])
              /\ _resolveExportValue(Get(target, conditions[i]), conditions) = Blocked
              /\ \A j \in 1..(i - 1) :
                    HasOwnProperty(target, conditions[j]) =>
                        _resolveExportValue(Get(target, conditions[j]), conditions) = Absent )
            => resolved = Blocked

\* Blocked is returned although a later condition of the list has a Leaf
C2_Witness ==
    /\ Called
    /\ target.kind = "object"
    /\ resolved = Blocked
    /\ \E i \in 1..Len(conditions) :
          /\ i > FirstLive(target, conditions)
          /\ HasOwnProperty(target, conditions[i])
          /\ _resolveExportValue(Get(target, conditions[i]), conditions).tag = "string"

\* C3: an array resolves to the Leaf of its first item that resolves to a
\* Leaf; without one it is Blocked when some item resolved to Blocked and
\* Absent otherwise.
C3_ArrayFirstLeaf ==
    (Called /\ target.kind = "array") =>
        LET rs == [i \in 1..Len(target.items) |->
                      _resolveExportValue(target.items[i], conditions)]
            leaves == {i \in 1..Len(target.items) : rs[i].tag = "string"}
        IN  resolved = IF leaves # {} THEN rs[Min(leaves)]
                       ELSE IF \E i \in 1..Len(target.items) : rs[i] = Blocked
                            THEN Blocked
                            ELSE Absent

\* a Leaf found after an item that resolved to Blocked
C3_Witness ==
    /\ Called
    /\ target.kind = "array"
    /\ Len(target.items) >= 2
    /\ _resolveExportValue(target.items[1], conditions) = Blocked
    /\ resolved.tag = "string"

\* value is an object none of whose keys is in conds
NoKeyRequested(value, conds) ==
    /\ value.kind = "object"
    /\ \A i \in 1..Len(conds) : ~HasOwnProperty(value, conds[i])

\* xs without its i-th element
Without(xs, i) == SubSeq(xs, 1, i - 1) \o SubSeq(xs, i + 1, Len(xs))

\* C4: an object none of whose keys is requested resolves to Absent, and an
\* array holding such an object resolves as the array without it does.
C4_UnmatchedObjectIsAbsent ==
    Called =>
        /\ NoKeyRequested(target, conditions) => resolved = Absent
        /\ target.kind = "array" =>
              \A i \in 1..Len(target.items) :
                  NoKeyRequested(target.items[i], conditions) =>
                      resolved = _resolveExportValue(Arr(Without(target.items, i)), conditions)

\* an array whose first item is an object with no requested key resolves
\* to the Leaf of a later item
C4_Witness ==
    /\ Called
    /\ target.kind = "array"
    /\ Len(target.items) >= 2
    /\ NoKeyRequested(target.items[1], conditions)
    /\ resolved.tag = "string"

\* C5: the object selected inside an object is evaluated against the whole
\* condition list, from its first condition on, not against what is left
\* of the list after the condition that selected it.
C5_NestedUsesFullList ==
    (Called /\ target.kind = "object") =>
        LET i == FirstLive(target, conditions)
        IN  (i # 0 /\ Get(target, conditions[i]).kind = "object") =>
                LET inner == Get(target, conditions[i])
                    j == FirstLive(inner, conditions)
                IN  /\ j # 0
                    /\ resolved = _resolveExportValue(Get(inner, conditions[j]), conditions)

\* the inner object matched a condition that the outer object skipped
C5_Witness ==
    /\ Called
    /\ target.kind = "object"
    /\ FirstLive(target, conditions) # 0
    /\ LET i == FirstLive(target, conditions)
           inner == Get(target, conditions[i])
       IN  /\ inner.kind = "object"
           /\ FirstLive(inner, conditions) # 0
           /\ FirstLive(inner, conditions) < i
           /\ resolved.tag = "string"

----------------------------------------------------------------------------
(* Properties of the constructed ExportTarget, checked under Spec          *)

Constructed == op = "constructor" /\ obj.constructed

\* the path of a Leaf, undefined for Absent and Blocked
PathOf(r) == IF r.tag = "string" THEN Some(r.path) ELSE Undefined

\* the global priority the caller asked for, as given
RequestedPriority ==
    IF IsDefined(options.conditionPriority) THEN options.conditionPriority[1]
    ELSE DEFAULT_CONDITION_PRIORITY

\* the condition set of field key: the caller's override, or key followed by
\* the global priority; normalized
RequestedSet(key) ==
    _normalizeConditions(
        IF IsDefined(options.conditionSets[key]) THEN options.conditionSets[key][1]
        ELSE <<key>> \o RequestedPriority)

\* the resolution of the root against the condition set of field key
SetResult(key) == _resolveExportValue(target, RequestedSet(key))

\* C6: each of the fields import, require and types is the path of the
\* resolution of the root against its own condition set when that is a
\* Leaf, and undefined when it is Absent or Blocked.
C6_FieldsFollowOwnSet ==
    Constructed =>
        \A key \in {"import", "require", "types"} :
            obj[key] = PathOf(SetResult(key))

\* import and require hold different paths while types is undefined
C6_Witness ==
    /\ Constructed
    /\ IsDefined(obj.import)
    /\ IsDefined(obj.require)
    /\ obj.import # obj.require
    /\ ~IsDefined(obj.types)

\* C7: default is the Leaf of the default condition set when there is one,
\* else the first Leaf among the import, require and types sets, else the
\* resolution of the root against the global priority.
C7_DefaultField ==
    Constructed =>
        obj.default =
            IF SetResult("default").tag = "string" THEN PathOf(SetResult("default"))
            ELSE IF SetResult("import").tag = "string" THEN PathOf(SetResult("import"))
            ELSE IF SetResult("require").tag = "string" THEN PathOf(SetResult("require"))
            ELSE IF SetResult("types").tag = "string" THEN PathOf(SetResult("types"))
            ELSE PathOf(_resolveExportValue(target, _normalizeConditions(RequestedPriority)))

\* C8: the constructor throws exactly when the root resolves to Absent
\* against the global priority; a Leaf or Blocked root constructs.
C8_ThrowsIffAbsent ==
    op = "constructor" =>
        (threw <=> _resolveExportValue(target, _normalizeConditions(RequestedPriority)) = Absent)

\* n is conds without its repeated entries, in order of first occurrence,
\* followed by "default" when conds does not hold it
IsNormalized(n, conds) ==
    /\ \A i, j \in 1..Len(n) : i # j => n[i] # n[j]
    /\ {n[i] : i \in 1..Len(n)} = {conds[i] : i \in 1..Len(conds)} \cup {"default"}
    /\ \A i, j \in 1..Len(n) :
          (i < j /\ \E k \in 1..Len(conds) : conds[k] = n[j]) =>
              \E k \in 1..Len(conds) :
                  /\ conds[k] = n[i]
                  /\ \A m \in 1..Len(conds) : conds[m] = n[j] => k < m

\* C9: resolve(conditions) returns the path of the resolution of the
\* stored root against the normalized list when that is a Leaf, and
\* undefined when it is Absent or Blocked, whatever the fields hold.
C9_ResolveFromStoredRoot ==
    op = "resolve" =>
        /\ obj._target = target
        /\ LET n == _normalizeConditions(conditions)
           IN  /\ IsNormalized(n, conditions)
               /\ returned = PathOf(_resolveExportValue(target, n))

\* resolve returns undefined for a Blocked resolution of a list without
\* "default", on an object whose default field holds a path
C9_Witness ==
    /\ op = "resolve"
    /\ \A i \in 1..Len(conditions) : conditions[i] # "default"
    /\ Len(conditions) = 2 /\ conditions[1] = conditions[2]
    /\ returned = Undefined
    /\ _resolveExportValue(target, _normalizeConditions(conditions)) = Blocked
    /\ IsDefined(obj.default)

RawSet(key) ==
    IF IsDefined(options.conditionSets[key]) THEN options.conditionSets[key][1]
    ELSE <<key>> \o obj._conditionPriority

\* C18: the stored global priority and the four stored condition sets are
\* their inputs without repeated entries, in order of first occurrence,
\* with "default" in them, and so is the list resolve runs the resolver
\* with; normalizing any of these lists again gives the same list.
C18_ListsNormalized ==
    /\ Constructed =>
          /\ IsNormalized(obj._conditionPriority, RequestedPriority)
          /\ _normalizeConditions(obj._conditionPriority) = obj._conditionPriority
          /\ \A key \in {"default", "import", "require", "types"} :
                 /\ IsNormalized(obj._conditionSets[key], RawSet(key))
                 /\ _normalizeConditions(obj._conditionSets[key])
                        = obj._conditionSets[key]
    /\ op = "resolve" =>
          LET n == _normalizeConditions(conditions)
          IN  /\ IsNormalized(n, conditions)
              /\ _normalizeConditions(n) = n
              /\ returned = PathOf(_resolveExportValue(obj._target, n))

\* an override with a repeated entry and without "default" was stored
\* without the repeat and with "default"
C18_Witness ==
    /\ Constructed
    /\ IsDefined(options.conditionSets["default"])
    /\ \E i, j \in 1..Len(RawSet("default")) :
          i # j /\ RawSet("default")[i] = RawSet("default")[j]
    /\ \A i \in 1..Len(RawSet("default")) : RawSet("default")[i] # "default"
    /\ Len(obj._conditionSets["default"]) = 2
    /\ IsDefined(obj.default)

\* C19: "default" is the last element of the four stored condition sets
\* and of the normalized list of every resolve call.
C19_DefaultLast ==
    /\ Constructed =>
          \A key \in {"default", "import", "require", "types"} :
              obj._conditionSets[key][Len(obj._conditionSets[key])] = "default"
    /\ op = "resolve" =>
          LET n == _normalizeConditions(conditions)
          IN  n[Len(n)] = "default"

\* list holds "default" once: at the end when raw does not name it, and
\* otherwise where raw first names it, after the distinct names before it
DefaultPlaced(list, raw) ==
    LET at == {i \in 1..Len(list) : list[i] = "default"}
        named == {k \in 1..Len(raw) : raw[k] = "default"}
    IN  /\ Cardinality(at) = 1
        /\ named = {} => at = {Len(list)}
        /\ named # {} =>
              \A i \in at :
                  {list[j] : j \in 1..(i - 1)} = {raw[k] : k \in 1..(Min(named) - 1)}

\* C19 as amended: every stored condition set and every normalized list of
\* a resolve call holds "default" exactly once, at the end when the list it
\* is made from does not name "default" and at its first occurrence
\* otherwise; without an override the default set starts with "default".
C19_DefaultAppendedWhenMissing ==
    /\ Constructed =>
          /\ DefaultPlaced(obj._conditionPriority, RequestedPriority)
          /\ \A key \in {"default", "import", "require", "types"} :
                 DefaultPlaced(obj._conditionSets[key], RawSet(key))
          /\ ~IsDefined(options.conditionSets["default"]) =>
                 obj._conditionSets["default"][1] = "default"
    /\ op = "resolve" =>
          DefaultPlaced(_normalizeConditions(conditions), conditions)

\* the default set starts with "default" and goes on with other
\* conditions, the import set ends with it, and the two fields differ
C19_Witness ==
    /\ Constructed
    /\ options = NoOptions
    /\ obj._conditionSets["default"][1] = "default"
    /\ Len(obj._conditionSets["default"]) > 1
    /\ obj._conditionSets["import"][Len(obj._conditionSets["import"])] = "default"
    /\ IsDefined(obj.default) /\ IsDefined(obj.import)
    /\ obj.default # obj.import

----------------------------------------------------------------------------
(* Properties of GlobResolver.resolveImport, checked under SpecGlob        *)

\* C10: when the selected pattern's value is a string p without "*",
\* resolveImport returns an ExportTarget whose four fields are p and whose
\* resolve(c) is p for every condition list c.
C10_PlainLeafUnchanged ==
    ( /\ op = "resolveImport"
      /\ selected # 0
      /\ patterns[selected].target.kind = "string"
      /\ ~HasStar(patterns[selected].target.path) )
    => LET p == Some(patterns[selected].target.path)
       IN  /\ ~threw
           /\ obj.constructed
           /\ obj.default = p /\ obj.import = p
           /\ obj.require = p /\ obj.types = p
           /\ \A c \in RawCondLists : resolve(obj, c) = p

\* the indices of the entries of table whose pattern matches subpath
Matching(table, subpath) ==
    {i \in 1..Len(table) : minimatch(subpath, table[i].pattern)}

ImportCalled == op = "resolveImport"

\* the value resolveImport hands to the ExportTarget constructor for entry
\* i of table: the stored value, with the captures put in when the pattern
\* has a "*"
ValueBuiltFrom(table, i) ==
    IF HasStar(table[i].pattern)
    THEN _substituteExportValue(table[i].target,
                                _extractCaptures(table[i].pattern, importPath))
    ELSE table[i].target

\* C11: resolveImport stops at the first entry of the table, in declaration
\* order, whose pattern matches the subpath: the ExportTarget it returns is
\* built from the value of this entry, and it throws only when building
\* from this entry throws. Later entries that match play no part, so the
\* table with its entries in reverse order gives the outcome of its own
\* first matching entry.
C11_FirstDeclaredWins ==
    ImportCalled =>
        LET hits == Matching(patterns, importPath)
        IN  hits # {} =>
                LET first == Min(hits)
                    last == Max(hits)
                    reversed == [i \in 1..Len(patterns) |->
                                    patterns[Len(patterns) + 1 - i]]
                IN  /\ selected = first
                    /\ ~threw => /\ obj.constructed
                                 /\ obj._target = ValueBuiltFrom(patterns, first)
                    /\ threw => ExportTargetConstructor(
                                    ValueBuiltFrom(patterns, first), options).threw
                    /\ first # last =>
                          \E r \in {resolveImport(reversed, importPath, options)} :
                              /\ r.selected = Len(patterns) + 1 - last
                              /\ [threw |-> r.threw, obj |-> r.obj]
                                     = ResolveEntry(patterns[last], importPath, options)

\* a wildcard pattern declared before the literal key equal to the subpath
\* is the one used, and the literal key would have given another target
C11_Witness ==
    /\ ImportCalled
    /\ Len(patterns) = 2
    /\ selected = 1
    /\ HasStar(patterns[1].pattern)
    /\ patterns[2].pattern = importPath
    /\ ~threw
    /\ ~ResolveEntry(patterns[2], importPath, options).threw
    /\ ResolveEntry(patterns[2], importPath, options).obj # obj

\* C12: when data.exports is undefined, or the table is empty, or no
\* pattern of it matches the subpath, resolveImport returns undefined and
\* does not throw.
C12_NoMatchIsUndefined ==
    ( /\ ImportCalled
      /\ \/ ~IsDefined(exportsField)
         \/ Matching(exportsField[1], importPath) = {} )
    => /\ ~threw
       /\ obj = NoObj
       /\ selected = 0

\* a table whose only entry would throw if it were built, and a subpath
\* that its pattern does not match
C12_Witness ==
    /\ ImportCalled
    /\ IsDefined(exportsField)
    /\ Len(patterns) = 1
    /\ ExportTargetConstructor(patterns[1].target, options).threw
    /\ ~minimatch(importPath, patterns[1].pattern)
    /\ obj = NoObj /\ ~threw

\* no exports field in the manifest
C12_WitnessNoExports ==
    /\ ImportCalled
    /\ ~IsDefined(exportsField)
    /\ obj = NoObj /\ ~threw

\* C13: an entry whose pattern holds no "*" is selected only for the
\* subpath equal to the pattern, and the ExportTarget is then built from
\* the stored value as it is.
C13_LiteralKeyExactOnly ==
    ( /\ ImportCalled
      /\ selected # 0
      /\ ~HasStar(patterns[selected].pattern) )
    => /\ patterns[selected].pattern = importPath
       /\ [threw |-> threw, obj |-> obj]
              = ExportTargetConstructor(patterns[selected].target, options)

\* the part of C13 about the stored value: no substitution is applied to
\* the value of a pattern without "*"
C13_LiteralKeyNoSubstitution ==
    ( /\ ImportCalled
      /\ selected # 0
      /\ ~HasStar(patterns[selected].pattern) )
    => [threw |-> threw, obj |-> obj]
          = ExportTargetConstructor(patterns[selected].target, options)

\* the entry resolveImport stopped at has a pattern with "*"
WildcardSelected ==
    /\ ImportCalled
    /\ selected # 0
    /\ HasStar(patterns[selected].pattern)

\* the captures of the selected pattern on the subpath
SelectedCaptures == _extractCaptures(patterns[selected].pattern, importPath)

RECURSIVE PositionalFrom(_, _, _, _)
\* s from position i on, read left to right: a wildcard run is "**" where
\* two "*" stand together and "*" otherwise; the run takes capture k + 1
\* when there is one and stays as it is when there is none
PositionalFrom(s, i, captures, k) ==
    IF i > Len(s) THEN <<>>
    ELSE IF s[i] = "*"
    THEN LET width == IF i < Len(s) /\ s[i + 1] = "*" THEN 2 ELSE 1
         IN  IF k < Len(captures)
             THEN captures[k + 1] \o PositionalFrom(s, i + width, captures, k + 1)
             ELSE SubSeq(s, i, i + width - 1)
                      \o PositionalFrom(s, i + width, captures, k)
    ELSE <<s[i]>> \o PositionalFrom(s, i + 1, captures, k)

RECURSIVE PositionalValue(_, _)
\* value with every string leaf rewritten by PositionalFrom, each leaf
\* starting at the first capture
PositionalValue(value, captures) ==
    IF value.kind = "string" THEN Str(PositionalFrom(value.path, 1, captures, 0))
    ELSE IF value.kind = "null" THEN NullValue
    ELSE [value EXCEPT !.items =
             [i \in 1..Len(value.items) |-> PositionalValue(value.items[i], captures)]]

\* C14: in every leaf string of the selected value the N-th wildcard run
\* from the left, "*" or "**", is replaced by the N-th capture, each leaf
\* counting from the first capture; the ExportTarget is built from the
\* value rewritten this way.
C14_PositionalSubstitution ==
    WildcardSelected =>
        [threw |-> threw, obj |-> obj]
            = ExportTargetConstructor(
                  PositionalValue(patterns[selected].target, SelectedCaptures),
                  options)

RECURSIVE RunCount(_, _)
\* the number of wildcard runs ("**" or "*") of s from position i on
RunCount(s, i) ==
    IF i > Len(s) THEN 0
    ELSE IF s[i] = "*"
    THEN 1 + RunCount(s, IF i < Len(s) /\ s[i + 1] = "*" THEN i + 2 ELSE i + 1)
    ELSE RunCount(s, i + 1)

\* C15: a leaf string with more wildcard runs than there are captures has
\* its first runs replaced by the captures, in order, and every run after
\* them left as it is; the target is built from that string.
C15_ExcessMarkersStay ==
    ( /\ WildcardSelected
      /\ patterns[selected].target.kind = "string"
      /\ RunCount(patterns[selected].target.path, 1) > Len(SelectedCaptures)
      /\ ~threw )
    => obj._target =
           Str(PositionalFrom(patterns[selected].target.path, 1, SelectedCaptures, 0))

\* the part of C15 that does not depend on which runs are replaced: with
\* more runs than captures, as many runs as there are captures are
\* replaced and the others are still in the output
C15_ExcessMarkersCounted ==
    ( /\ WildcardSelected
      /\ patterns[selected].target.kind = "string"
      /\ RunCount(patterns[selected].target.path, 1) > Len(SelectedCaptures)
      /\ ~threw )
    => RunCount(obj._target.path, 1) =
           RunCount(patterns[selected].target.path, 1) - Len(SelectedCaptures)

RECURSIVE Shape(_)
\* value with every string leaf blanked: what is left is the nulls, the
\* lengths and order of the arrays and the keys of the objects, in order
Shape(value) ==
    IF value.kind = "string" THEN Str(EmptyString)
    ELSE [value EXCEPT !.items = [i \in 1..Len(value.items) |-> Shape(value.items[i])]]

RECURSIVE LeafStrings(_)
RECURSIVE LeafStringsOf(_)
\* the string leaves of value, from left to right
LeafStrings(value) ==
    IF value.kind = "string" THEN <<value.path>>
    ELSE LeafStringsOf(value.items)

LeafStringsOf(xs) ==
    IF xs = <<>> THEN <<>> ELSE LeafStrings(Head(xs)) \o LeafStringsOf(Tail(xs))

\* C16: the value the ExportTarget is built from has the shape of the
\* stored value (nulls, array lengths and order, object keys and their
\* order), and each of its string leaves is the stored leaf at the same
\* place rewritten with the one capture list of the match.
C16_SubstitutionKeepsShape ==
    (WildcardSelected /\ ~threw) =>
        LET stored == patterns[selected].target
            before == LeafStrings(stored)
            after == LeafStrings(obj._target)
        IN  /\ Shape(obj._target) = Shape(stored)
            /\ Len(after) = Len(before)
            /\ \A i \in 1..Len(before) :
                   after[i] = _replaceWildcards(before[i], SelectedCaptures)

\* a value with a null in it and a leaf two levels below the root that was
\* rewritten and is what the import field holds
C16_Witness ==
    /\ WildcardSelected
    /\ ~threw
    /\ Len(SelectedCaptures) >= 1
    /\ patterns[selected].target.kind \in {"array", "object"}
    /\ \E i \in 1..Len(patterns[selected].target.items) :
          patterns[selected].target.items[i] = NullValue
    /\ \E i \in 1..Len(patterns[selected].target.items) :
          patterns[selected].target.items[i].kind = "object"
    /\ LeafStrings(obj._target) # LeafStrings(patterns[selected].target)
    /\ IsDefined(obj.import)

----------------------------------------------------------------------------
(* Properties of TurboPackage / TurboApp, checked under SpecTurbo          *)

\* what the manifest gives for the subpath: packageJson.resolveImport
ManifestResult == PackageJson_resolveImport(exportsField, importPath, NoOptions)

RECURSIVE Slashed(_)
\* "/" and a part, for every part
Slashed(parts) ==
    IF parts = <<>> THEN <<>>
    ELSE <<"/">> \o Head(parts) \o Slashed(Tail(parts))

\* root followed by the parts of the relative path rel that are neither
\* empty nor ".", keeping the "/" at the end of rel (rel has no ".." part)
JoinedWithRoot(root, rel) ==
    LET parts == SelectSeq(SplitFrom(rel, 1, <<>>),
                           LAMBDA x : x # <<>> /\ x # <<".">>)
    IN  root \o Slashed(parts)
             \o (IF rel # <<>> /\ rel[Len(rel)] = "/" THEN <<"/">> ELSE <<>>)

\* C20: the package's resolveImport returns undefined when the manifest
\* resolution does, and otherwise a Proxy on the manifest's ExportTarget;
\* reading a field of it that holds a relative path gives the package path
\* joined with that relative path.
C20_AbsoluteFields ==
    /\ op = "TurboPackage.resolveImport" =>
          LET m == ManifestResult
          IN  /\ obj = m.obj
              /\ threw = m.threw
              /\ proxied <=> m.obj.constructed
              /\ (m.obj = NoObj /\ ~m.threw) => ~proxied
    /\ (op = "get" /\ prop \in StringFields /\ IsDefined(obj[prop])) =>
          /\ proxied
          /\ got = Value(Some(JoinedWithRoot(packagePath, obj[prop][1])))

\* a field read through the Proxy: the relative path starts with "./" and
\* the absolute one is the package path, "/" and the rest
C20_Witness ==
    /\ op = "get"
    /\ prop = "default"
    /\ IsDefined(obj.default)
    /\ Len(obj.default[1]) > 2
    /\ SubSeq(obj.default[1], 1, 2) = <<".", "/">>
    /\ got = Value(Some(packagePath \o <<"/">>
                            \o SubSeq(obj.default[1], 3, Len(obj.default[1]))))

\* no pattern matches: the package's resolveImport returned undefined
C20_WitnessUndefined ==
    /\ op = "TurboPackage.resolveImport"
    /\ IsDefined(exportsField)
    /\ Len(patterns) >= 1
    /\ selected = 0
    /\ ~proxied /\ ~threw

\* C21: reading, on the Proxy, a field that holds undefined on the
\* underlying ExportTarget gives undefined, and reading resolve gives the
\* method; neither read throws.
C21_ProxyKeepsInterface ==
    op = "get" =>
        /\ (prop \in StringFields /\ ~IsDefined(obj[prop])) => got = Value(Undefined)
        /\ prop = "resolve" => ~got.threw

\* the part of C21 that holds: a property the target does not have reads
\* as undefined
C21_UnknownPropertyIsUndefined ==
    (op = "get" /\ prop \notin PropsInTarget) => got = Value(Undefined)

----------------------------------------------------------------------------
(* C22: nothing is cached across accesses: whatever file-system changes    *)
(* came before, a read of packages, apps or allWorkspaces gives the        *)
(* directories that hold a package.json at that read, in directory order,  *)
(* each with the name its package.json has at that read                    *)

\* the directories of order, at the positions in live, listed in result
\* with their current manifest, and nothing else
ReflectsDirectory(items, class, dir, order, entries, exists) ==
    LET live == { i \in DOMAIN order : exists /\ HasManifest(entries[order[i]]) }
    IN  /\ Len(items) = Cardinality(live)
        /\ \A i \in live : \E k \in DOMAIN items :
               items[k] = [class |-> class, path |-> <<dir, order[i]>>,
                           name |-> entries[order[i]]]
        /\ \A k \in DOMAIN items : \A l \in DOMAIN items :
               (k < l) => \E i \in live : \E j \in live :
                   /\ i < j
                   /\ items[k].path = <<dir, order[i]>>
                   /\ items[l].path = <<dir, order[j]>>

\* some package.json that a read constructs does not parse
BrokenIn(order, entries, exists) ==
    exists /\ \E i \in DOMAIN order : entries[order[i]] = "broken"

C22_ReadsReflectFileSystem ==
    /\ op = "packages" =>
          IF BrokenIn(PackageDirs, fs.packages, fs.packagesExists)
          THEN listed.result.threw
          ELSE /\ ~listed.result.threw
               /\ ReflectsDirectory(listed.result.items, "TurboPackage", "packages",
                                     PackageDirs, fs.packages, fs.packagesExists)
    /\ op = "apps" =>
          IF BrokenIn(AppDirs, fs.apps, fs.appsExists)
          THEN listed.result.threw
          ELSE /\ ~listed.result.threw
               /\ ReflectsDirectory(listed.result.items, "TurboApp", "apps",
                                     AppDirs, fs.apps, fs.appsExists)
    /\ op = "allWorkspaces" =>
          IF \/ BrokenIn(PackageDirs, fs.packages, fs.packagesExists)
             \/ BrokenIn(AppDirs, fs.apps, fs.appsExists)
          THEN listed.result.threw
          ELSE /\ ~listed.result.threw
               /\ \E n \in 0..Len(listed.result.items) :
                     /\ ReflectsDirectory(SubSeq(listed.result.items, 1, n),
                                           "TurboPackage", "packages",
                                           PackageDirs, fs.packages, fs.packagesExists)
                     /\ ReflectsDirectory(SubSeq(listed.result.items, n + 1,
                                                  Len(listed.result.items)),
                                           "TurboApp", "apps",
                                           AppDirs, fs.apps, fs.appsExists)

\* packages read twice with a rewritten package.json in between: the second
\* read gives the new name
C22_Witness ==
    /\ op = "packages"
    /\ previous.getter = "packages"
    /\ ~previous.result.threw /\ ~listed.result.threw
    /\ Len(previous.result.items) = 2 /\ Len(listed.result.items) = 2
    /\ previous.result.items[1].name = "x"
    /\ listed.result.items[1].name = "y"

----------------------------------------------------------------------------
(* C23: whenever resolveImport selects a pattern with a "*", the capture   *)
(* regex matches the same subpath and gives one capture for every wildcard *)
(* run of the pattern, left to right, a "*" capture holding no "/": the    *)
(* selection test and the capture regex agree on the selected subpath      *)

\* the wildcard runs of a pattern, left to right
WildcardRuns(pattern) ==
    SelectSeq(_globToRegex(pattern),
              LAMBDA t : t \in {STAR_GROUP, DOUBLESTAR_GROUP})

C23_CapturesAgreeWithSelection ==
    WildcardSelected =>
        LET pattern == patterns[selected].pattern
            runs == WildcardRuns(pattern)
        IN  /\ IsDefined(RegexMatch(_globToRegex(pattern), importPath, 1, 1))
            /\ Len(SelectedCaptures) = Len(runs)
            /\ \A k \in DOMAIN SelectedCaptures :
                   runs[k] = STAR_GROUP =>
                       \A i \in DOMAIN SelectedCaptures[k] :
                           SelectedCaptures[k][i] # "/"

\* minimatch selects "./**/*" for "./a", taking "**" as no segment at all,
\* while the regex asks for a "/" between the two groups
C23_SelectedWithoutCaptures ==
    /\ WildcardSelected
    /\ patterns[selected].pattern = <<".", "/", "*", "*", "/", "*">>
    /\ importPath = <<".", "/", "a">>
    /\ SelectedCaptures = <<>>

----------------------------------------------------------------------------
(* C24: a call of _resolveExportValue on a normalized list ends after      *)
(* evaluating every node of the tree at most once, so never more nodes     *)
(* than the tree has; a constructor call makes at most five resolutions    *)
(* and a resolve call one                                                  *)

RECURSIVE Positions(_, _)
\* the positions of the nodes of the tree value, whose root is at position at
Positions(value, at) ==
    {at} \cup UNION { Positions(value.items[i], Append(at, i)) :
                          i \in 1..Len(value.items) }

\* every entry of the trace is a node of the tree, and none comes twice
EachNodeAtMostOnce(trace, value) ==
    /\ \A k \in DOMAIN trace : trace[k] \in Positions(value, <<>>)
    /\ \A k \in DOMAIN trace : \A l \in DOMAIN trace :
           trace[k] = trace[l] => k = l
    /\ Len(trace) <= Cardinality(Positions(value, <<>>))

C24_BoundedWork ==
    /\ op \in {"constructor", "constructor again"} =>
          /\ Len(evaluated) \in {4, 5}
          /\ \A n \in DOMAIN evaluated : EachNodeAtMostOnce(evaluated[n], target)
    /\ op \in {"resolve", "resolve again"} =>
          /\ Len(evaluated) = 1
          /\ EachNodeAtMostOnce(evaluated[1], obj._target)

\* resolve with a list that names a condition twice: the value of that key
\* is absent, and it is evaluated once
C24_Witness ==
    /\ op = "resolve"
    /\ conditions = <<"custom", "custom">>
    /\ obj._target.kind = "object"
    /\ returned = Undefined
    /\ Len(evaluated[1]) = 2

\* a constructor call that needs the fallback: five resolutions
C24_WitnessFive ==
    /\ op = "constructor"
    /\ Len(evaluated) = 5
    /\ \E n \in DOMAIN evaluated : Len(evaluated[n]) = 3

----------------------------------------------------------------------------
(* C25: resolveImport changes neither the table of the resolver nor a tree *)
(* stored in it: after any number of calls the table is the one the        *)
(* resolver was built with, and the call gave what the first call of a     *)
(* resolver just built from that table gives for the same subpath and      *)
(* options                                                                 *)

C25_CallsLeaveTableAlone ==
    op \in ResolverCalls =>
        /\ patterns = exportsField[1]
        /\ LET fresh == resolveImport(exportsField[1], importPath, options)
           IN  /\ selected = fresh.selected
               /\ threw = fresh.threw
               /\ obj = fresh.obj

\* a later call that selected a "*" pattern and built its target from a
\* substituted copy, the stored tree still holding its "*"
C25_Witness ==
    /\ op \in ResolverCalls \ {"resolveImport"}
    /\ selected # 0
    /\ HasStar(patterns[selected].pattern)
    /\ obj.constructed
    /\ obj._target # patterns[selected].target
    /\ patterns[selected].target = exportsField[1][selected].target

----------------------------------------------------------------------------
(* C26: the resolver invents no path: every field of a constructed         *)
(* ExportTarget that is defined, and every result of resolve that is not   *)
(* undefined, is a string leaf of the tree the constructor was given       *)

\* the string leaves of the tree given to the constructor
LeavesOfTarget ==
    LET leaves == LeafStrings(target)
    IN  {leaves[i] : i \in 1..Len(leaves)}

C26_NoInventedPath ==
    /\ (op \in {"constructor", "constructor again"} /\ ~threw) =>
          \A key \in {"default", "import", "require", "types"} :
              IsDefined(obj[key]) => obj[key][1] \in LeavesOfTarget
    /\ (op \in {"resolve", "resolve again"} /\ IsDefined(returned)) =>
          returned[1] \in LeavesOfTarget

\* a tree with two different leaves: resolve returns one of them and the
\* default field holds the other
C26_Witness ==
    /\ op = "resolve"
    /\ IsDefined(returned)
    /\ IsDefined(obj.default)
    /\ returned # obj.default
    /\ Cardinality(LeavesOfTarget) = 2

\* a constructed target none of whose fields is defined
C26_WitnessNoField ==
    /\ op = "constructor"
    /\ ~threw
    /\ \A key \in {"default", "import", "require", "types"} : ~IsDefined(obj[key])

----------------------------------------------------------------------------
(* C27: substitution commutes with resolution: the substituted tree        *)
(* resolves to Blocked when the stored tree does, to Absent when the       *)
(* stored tree does, and otherwise to the leaf the stored tree resolves    *)
(* to, with the captures put in; the captures change no branch             *)

\* the resolution of the stored tree
StoredResolution == _resolveExportValue(patterns[1].target, conditions)

\* the captures of the subpath
SubstituteCaptures == _extractCaptures(patterns[1].pattern, importPath)

C27_SubstitutionCommutes ==
    op = "_substituteExportValue" =>
        /\ resolved.tag = StoredResolution.tag
        /\ StoredResolution.tag = "string" =>
               resolved.path = _replaceWildcards(StoredResolution.path,
                                                 SubstituteCaptures)

\* the leaf selected under a condition becomes the empty string, and is
\* still the one selected
C27_Witness ==
    /\ op = "_substituteExportValue"
    /\ patterns[1].target.kind = "object"
    /\ StoredResolution = Leaf(S("*"))
    /\ SubstituteCaptures = <<EmptyString>>
    /\ resolved = Leaf(EmptyString)

----------------------------------------------------------------------------
(* C28: whether a resolution is Absent depends on the set of condition     *)
(* names only; so, when the options override no condition set, the four    *)
(* standard resolutions are all Absent or none is, and the constructor     *)
(* makes its fifth resolution, on the priority list, only when all four    *)
(* are Absent or all four are Blocked                                      *)

\* the names of a list
NamesOf(conds) == {conds[i] : i \in 1..Len(conds)}

\* the four standard resolutions of the constructor
StandardResolution(key) == _resolveExportValue(target, ConditionSetOf(options, key))

\* the constructor went on to the resolution on the priority list
FallbackReached == Len(evaluated) = 5

C28_AbsentTogether ==
    (op = "constructor" /\ options.conditionSets = NoConditionSets) =>
        /\ \/ \A key \in {"default", "import", "require", "types"} :
                 StandardResolution(key) = Absent
           \/ \A key \in {"default", "import", "require", "types"} :
                 StandardResolution(key) # Absent
        /\ FallbackReached =>
              \/ \A key \in {"default", "import", "require", "types"} :
                     StandardResolution(key) = Absent
              \/ \A key \in {"default", "import", "require", "types"} :
                     StandardResolution(key) = Blocked

\* the first sentence of C28 holds of the resolver: two lists of the same
\* names are Absent together (under SpecValue)
C28_AbsentBySetOnly ==
    op = "_resolveExportValue" =>
        \A c \in CondLists :
            NamesOf(c) = NamesOf(conditions) =>
                (resolved = Absent <=> _resolveExportValue(target, c) = Absent)

\* with the priority list overridden the four condition sets hold different
\* names; without any override they are Absent together (under Spec)
C28_AbsentTogetherByDefault ==
    (op = "constructor" /\ options = NoOptions) =>
        \/ \A key \in {"default", "import", "require", "types"} :
               StandardResolution(key) = Absent
        \/ \A key \in {"default", "import", "require", "types"} :
               StandardResolution(key) # Absent

\* priority overridden to ['custom']: the import set resolves to a path
\* and the default set to Absent
C28_WitnessOverride ==
    /\ op = "constructor"
    /\ options.conditionSets = NoConditionSets
    /\ IsDefined(options.conditionPriority)
    /\ StandardResolution("import").tag = "string"
    /\ StandardResolution("default") = Absent

\* no override, a leaf '': the four resolutions are that leaf, and the
\* constructor goes on to the priority list
C28_WitnessEmptyLeaf ==
    /\ op = "constructor"
    /\ options = NoOptions
    /\ FallbackReached
    /\ \A key \in {"default", "import", "require", "types"} :
           StandardResolution(key) = Leaf(EmptyString)

----------------------------------------------------------------------------
(* C29: for a target that release 1.0.0 accepts (a string, or an object of *)
(* strings under some of the keys default, import, require and types), the *)
(* ExportTarget built with no options throws exactly when the 1.0.0 one    *)
(* throws, and otherwise has the same default, import, require and types   *)

\* a string, or an object of strings under keys of the 1.0.0 schema
IsFlat(value) ==
    \/ value.kind = "string"
    \/ /\ value.kind = "object"
       /\ \A i \in 1..Len(value.keys) :
              /\ value.keys[i] \in {"default", "import", "require", "types"}
              /\ value.items[i].kind = "string"

C29_SameAsFlat ==
    (op = "constructor" /\ options = NoOptions /\ IsFlat(target)) =>
        LET old == ExportTarget_1_0_0(target)
        IN  /\ threw <=> old.threw
            /\ ~threw => \A key \in {"default", "import", "require", "types"} :
                             obj[key] = old[key]

\* the string '' is a target for 1.0.0, with all four fields '', and is
\* refused by the conditional resolver
C29_WitnessEmptyString ==
    /\ op = "constructor"
    /\ options = NoOptions
    /\ target = Str(EmptyString)
    /\ threw
    /\ ~ExportTarget_1_0_0(target).threw

\* { import: p }: 1.0.0 leaves require undefined, the conditional resolver
\* finds p for it under the key import
C29_WitnessFallThrough ==
    /\ op = "constructor"
    /\ options = NoOptions
    /\ IsFlat(target)
    /\ target.kind = "object"
    /\ target.keys = <<"import">>
    /\ ~threw
    /\ ExportTarget_1_0_0(target).require = Undefined
    /\ obj.require = obj.import
    /\ IsDefined(obj.require)

\* what the two releases share on objects without an empty string: they
\* throw together, default is the same, and so is each of import and
\* require whose key the object has (under Spec)
C29_PresentKeysAgree ==
    ( /\ op = "constructor" /\ options = NoOptions
      /\ IsFlat(target) /\ target.kind = "object"
      /\ \A i \in 1..Len(target.items) : target.items[i].path # EmptyString ) =>
        LET old == ExportTarget_1_0_0(target)
        IN  /\ threw <=> old.threw
            /\ ~threw =>
                  /\ obj.default = old.default
                  /\ \A key \in {"import", "require", "types"} :
                         HasOwnProperty(target, key) => obj[key] = old[key]

----------------------------------------------------------------------------
(* C30: the first matching pattern alone decides the outcome of            *)
(* resolveImport: when the value built from it resolves to Absent the call *)
(* throws 'Invalid export target', when it resolves to Blocked the call    *)
(* returns a target whose fields are all undefined, and in both cases a    *)
(* later matching pattern is not tried; a call that threw changes nothing  *)
(* for the calls after it                                                  *)

\* the resolution of value against the condition set of field key, and
\* against the priority list, under the options of the call
CallResolutions(value) ==
    { _resolveExportValue(value, ConditionSetOf(options, key)) :
          key \in {"default", "import", "require", "types"} }
    \cup { _resolveExportValue(value, ConditionPriorityOf(options)) }

C30_FirstMatchDecides ==
    (op \in ResolverCalls /\ Matching(patterns, importPath) # {}) =>
        LET first == Min(Matching(patterns, importPath))
            value == ValueBuiltFrom(patterns, first)
        IN  /\ selected = first
            /\ CallResolutions(value) = {Absent} => (threw /\ obj = NoObj)
            /\ CallResolutions(value) = {Blocked} =>
                  /\ ~threw
                  /\ obj.constructed
                  /\ obj._target = value
                  /\ \A key \in {"default", "import", "require", "types"} :
                         obj[key] = Undefined

\* after a call that threw: the first matching value is invalid and the
\* call throws, although the next matching entry holds a plain path
C30_Witness ==
    /\ op = "resolveImport after a throw"
    /\ Len(patterns) = 2
    /\ Matching(patterns, importPath) = {1, 2}
    /\ CallResolutions(ValueBuiltFrom(patterns, 1)) = {Absent}
    /\ patterns[2].target = Str(S("a"))
    /\ threw

\* after a call that threw: another subpath gives its target
C30_WitnessAfterThrow ==
    /\ op = "resolveImport after a throw"
    /\ ~threw
    /\ obj.constructed
    /\ IsDefined(obj.default)

\* the first matching value is blocked, the next matching entry holds a
\* plain path: the call returns a target without fields
C30_WitnessBlocked ==
    /\ op \in ResolverCalls
    /\ Len(patterns) = 2
    /\ Matching(patterns, importPath) = {1, 2}
    /\ CallResolutions(ValueBuiltFrom(patterns, 1)) = {Blocked}
    /\ patterns[2].target = Str(S("a"))
    /\ ~threw
    /\ obj.default = Undefined

====
